---- MODULE Spec2Model ----
(***************************************************************************)
(* Verification model of the authenticated-state and transaction-validity  *)
(* layer of snarkVM:                                                       *)
(*   - MerkleTriePath::verify   (algorithms/src/merkle_trie/merkle_path.rs) *)
(*   - InnerCircuit::generate_constraints (dpc/src/circuits/inner_circuit.rs)*)
(*   - marlin Proof: new, batch_sizes, serialization                       *)
(*       (algorithms/src/snark/marlin/data_structures/proof.rs)            *)
(* Hashes, commitments, PRF and encryption are modelled collision-free:    *)
(* the digest of an input is the structured term of that input.            *)
(***************************************************************************)
EXTENDS Integers, Sequences, FiniteSets, TLC

VARIABLES
    call,      \* the arguments of one MerkleTriePath::verify call (self, root_hash, key, value)
    origin,    \* how the call was put together: the trie shape it came from and what was altered
    result,    \* the outcome of verify on `call`
    circuit,   \* the InnerCircuit (public and private variables) handed to generate_constraints
    made,      \* how the circuit's variables were put together
    synth,     \* the outcome of generate_constraints on `circuit`
    args,      \* the arguments of one Proof::new call and how they were put together
    built,     \* the outcome of Proof::new on `args`
    wire       \* the outcomes of batch_sizes, serialized_size, serialize and deserialize on the proof

vars == <<call, origin, result, circuit, made, synth, args, built, wire>>

(***************************************************************************)
(* Bounds of the model.                                                    *)
(***************************************************************************)
\* Greatest number of levels of a trie path.
MaxLevels == 2
\* Greatest number of sibling digests of one level.
MaxSiblings == 2

(***************************************************************************)
(* Sequence helpers.                                                       *)
(***************************************************************************)
Range(s) == {s[i] : i \in 1..Len(s)}

Reverse(s) == [i \in 1..Len(s) |-> s[Len(s) + 1 - i]]

DropLast(s) == IF s = <<>> THEN s ELSE SubSeq(s, 1, Len(s) - 1)

\* s with x placed at the 0-based position index (index <= Len(s)).
InsertAt(s, index, x) == SubSeq(s, 1, index) \o <<x>> \o SubSeq(s, index + 1, Len(s))

(***************************************************************************)
(* The node hash.  calculate_root serialises the node's key, its optional  *)
(* value and its children's digests and hashes them with the CRH.  The     *)
(* digest is modelled as the term of what was hashed, so two digests are   *)
(* equal exactly when the hashed nodes are (no collisions).  An optional   *)
(* value is <<>> (None) or <<v>> (Some(v)).                                *)
(***************************************************************************)
calculate_root(key, value, children) ==
    [key |-> key, value |-> value, children |-> children]

\* A digest that is the hash of no node of any trie built here.
JunkDigest == [key |-> -1, value |-> <<>>, children |-> <<>>]

(***************************************************************************)
(* MerkleTriePath::verify.                                                 *)
(* A call c holds self.path, self.parents, self.traversal, root_hash, key, *)
(* value, and crhFailAt: the call of calculate_root at which the CRH gives *)
(* an error (0 the leaf, i the i-th level, -1 none).                       *)
(* The outcome is "true"/"false" (Ok(true)/Ok(false)), "error" (Err(..))   *)
(* or "panic" (a failed assert_eq! or Vec::insert out of bounds); hashes   *)
(* counts the calls of calculate_root, placed the positions at which the   *)
(* current digest was put among the siblings of the levels hashed.         *)
(***************************************************************************)
\* A variant of node_hashes that appends the digest when the index is past the end.
node_hashes_append(siblings, index, curr_hash) ==
    IF index <= Len(siblings)
    THEN [ok |-> TRUE, list |-> InsertAt(siblings, index, curr_hash), at |-> index]
    ELSE [ok |-> TRUE, list |-> Append(siblings, curr_hash), at |-> Len(siblings)]

\* A variant of node_hashes that takes only an index before the end of the siblings.
node_hashes_before_end(siblings, index, curr_hash) ==
    IF index < Len(siblings)
    THEN [ok |-> TRUE, list |-> InsertAt(siblings, index, curr_hash), at |-> index]
    ELSE [ok |-> FALSE, list |-> <<>>, at |-> -1]

\* lines 48-49: the siblings with curr_hash inserted at index; Vec::insert
\* panics when index > len.
node_hashes(siblings, index, curr_hash) ==
    IF index <= Len(siblings)
    THEN [ok |-> TRUE, list |-> InsertAt(siblings, index, curr_hash), at |-> index]
    ELSE [ok |-> FALSE, list |-> <<>>, at |-> -1]

RECURSIVE verify_levels_ignore_failure(_, _, _, _, _)
\* A variant of verify_levels that goes on to the next level when a hash fails.
verify_levels_ignore_failure(c, i, curr_hash, hashes, placed) ==
    IF i > Len(c.traversal)
    THEN [outcome |-> IF curr_hash # c.root_hash THEN "false" ELSE "true",
          hashes |-> hashes, placed |-> placed]
    ELSE LET nh == node_hashes(c.path[i], c.traversal[i], curr_hash)
         IN  IF ~nh.ok
             THEN [outcome |-> "panic", hashes |-> hashes, placed |-> placed]
             ELSE verify_levels_ignore_failure(c, i + 1,
                                calculate_root(c.parents[i][1], c.parents[i][2], nh.list),
                                hashes + 1, Append(placed, nh.at))

RECURSIVE verify_levels(_, _, _, _, _)
\* lines 47-61: the loop over the levels from i on, then the comparison with the root.
verify_levels(c, i, curr_hash, hashes, placed) ==
    IF i > Len(c.traversal)
    THEN [outcome |-> IF curr_hash # c.root_hash THEN "false" ELSE "true",
          hashes |-> hashes, placed |-> placed]
    ELSE LET nh == node_hashes(c.path[i], c.traversal[i], curr_hash)
         IN  IF ~nh.ok
             THEN [outcome |-> "panic", hashes |-> hashes, placed |-> placed]
             ELSE IF c.crhFailAt = i
             THEN [outcome |-> "error", hashes |-> hashes + 1, placed |-> Append(placed, nh.at)]
             ELSE verify_levels(c, i + 1,
                                calculate_root(c.parents[i][1], c.parents[i][2], nh.list),
                                hashes + 1, Append(placed, nh.at))


\* A variant of verify without the two length assertions: zip_eq and the
\* parents[i] lookup then fail only once the loop is underway.
verify_unchecked(c) ==
    IF c.crhFailAt = 0
    THEN [outcome |-> "error", hashes |-> 1, placed |-> <<>>]
    ELSE IF c.path = <<>>
    THEN [outcome |-> "false", hashes |-> 1, placed |-> <<>>]
    ELSE IF Len(c.path) # Len(c.traversal) \/ Len(c.parents) # Len(c.traversal)
    THEN [outcome |-> "panic", hashes |-> 1, placed |-> <<>>]
    ELSE verify_levels(c, 1, calculate_root(c.key, <<c.value>>, <<>>), 1, <<>>)

\* lines 37-65.
verify(c) ==
    IF Len(c.path) # Len(c.traversal) \/ Len(c.parents) # Len(c.traversal)
    THEN [outcome |-> "panic", hashes |-> 0, placed |-> <<>>]
    ELSE IF c.crhFailAt = 0
    THEN [outcome |-> "error", hashes |-> 1, placed |-> <<>>]
    ELSE IF c.path # <<>>
    THEN verify_levels(c, 1, calculate_root(c.key, <<c.value>>, <<>>), 1, <<>>)
    ELSE [outcome |-> "false", hashes |-> 1, placed |-> <<>>]

(***************************************************************************)
(* The trie a path is built from.  A node is [key, value, children]; the   *)
(* digest of a node hashes its key, its value and its children's digests.  *)
(* A shape gives, for each level from the leaf's parent up to the root,    *)
(* how many other children the node of that level has and where the child  *)
(* on the way to the leaf stands among them.                               *)
(***************************************************************************)
LevelShapes == {ls \in [sibs : 0..MaxSiblings, idx : 0..MaxSiblings] : ls.idx <= ls.sibs}

Shapes == UNION {[1..n -> LevelShapes] : n \in 0..MaxLevels}

\* The trie holds the leaf (key 1, value 1); a call may also name key 2 or value 2.
SiblingNode(l, j) == [key |-> 10 * l + j, value |-> <<j>>, children |-> <<>>]

ParentKey(l) == 100 + l
ParentValue(l) == IF l % 2 = 1 THEN <<l>> ELSE <<>>

RECURSIVE BuildTrie(_, _, _, _)
\* The node of level l above the leaf (key, value); level 0 is the leaf itself.
BuildTrie(shape, l, key, value) ==
    IF l = 0
    THEN [key |-> key, value |-> <<value>>, children |-> <<>>]
    ELSE [key |-> ParentKey(l), value |-> ParentValue(l),
          children |-> InsertAt([j \in 1..shape[l].sibs |-> SiblingNode(l, j)],
                                shape[l].idx, BuildTrie(shape, l - 1, key, value))]

RECURSIVE TrieRoot(_)
\* The digest of a node: the root of the trie below it.
TrieRoot(node) ==
    calculate_root(node.key, node.value,
                   [i \in 1..Len(node.children) |-> TrieRoot(node.children[i])])

RECURSIVE Holds(_, _)
Holds(node, key) ==
    node.key = key \/ \E i \in 1..Len(node.children) : Holds(node.children[i], key)

RECURSIVE GenerateProof(_, _)
\* The path for key: from the leaf up, the digests of the other children of
\* each node on the way, that node's (key, value) and the child's position.
GenerateProof(node, key) ==
    IF node.key = key
    THEN [path |-> <<>>, parents |-> <<>>, traversal |-> <<>>]
    ELSE LET i == CHOOSE i \in 1..Len(node.children) : Holds(node.children[i], key)
             sub == GenerateProof(node.children[i], key)
             others == [j \in 1..(Len(node.children) - 1) |->
                          TrieRoot(node.children[IF j < i THEN j ELSE j + 1])]
         IN  [path |-> Append(sub.path, others),
              parents |-> Append(sub.parents, <<node.key, node.value>>),
              traversal |-> Append(sub.traversal, i - 1)]

(***************************************************************************)
(* The calls of verify that are checked: the path of a trie, as built or   *)
(* with one part altered, against the trie's root, against the root that   *)
(* the altered path would give, or against an unrelated digest.            *)
(***************************************************************************)
NoAlteration == [kind |-> "none", l |-> 0, x |-> 0]

Alterations ==
    {NoAlteration}
    \cup {[kind |-> "sibling", l |-> l, x |-> j] : l \in 1..MaxLevels, j \in 1..MaxSiblings}
    \cup {[kind |-> "index", l |-> l, x |-> x] : l \in 1..MaxLevels, x \in 0..(MaxSiblings + 1)}
    \cup {[kind |-> k, l |-> 0, x |-> 0] :
            k \in {"reorder", "value", "key", "shortPath", "shortParents", "shortTraversal",
                   "longPath", "longParents", "longTraversal"}}

\* Whether alteration a changes the path p (of key 1, value 1).
Applies(p, a) ==
    CASE a.kind = "sibling" -> a.l <= Len(p.path) /\ a.x <= Len(p.path[a.l])
      [] a.kind = "index" -> a.l <= Len(p.traversal) /\ a.x # p.traversal[a.l]
      [] a.kind = "reorder" -> Reverse(p.traversal) # p.traversal
      [] a.kind \in {"shortPath", "shortParents", "shortTraversal"} -> p.path # <<>>
      [] OTHER -> TRUE

Altered(p, a) ==
    LET base == [path |-> p.path, parents |-> p.parents, traversal |-> p.traversal,
                 key |-> 1, value |-> 1]
    IN  CASE a.kind = "sibling" -> [base EXCEPT !.path[a.l][a.x] = JunkDigest]
          [] a.kind = "index" -> [base EXCEPT !.traversal[a.l] = a.x]
          [] a.kind = "reorder" -> [base EXCEPT !.traversal = Reverse(p.traversal)]
          [] a.kind = "value" -> [base EXCEPT !.value = 2]
          [] a.kind = "key" -> [base EXCEPT !.key = 2]
          [] a.kind = "shortPath" -> [base EXCEPT !.path = DropLast(p.path)]
          [] a.kind = "shortParents" -> [base EXCEPT !.parents = DropLast(p.parents)]
          [] a.kind = "shortTraversal" -> [base EXCEPT !.traversal = DropLast(p.traversal)]
          [] a.kind = "longPath" -> [base EXCEPT !.path = Append(p.path, <<>>)]
          [] a.kind = "longParents" -> [base EXCEPT !.parents = Append(p.parents, <<ParentKey(0), <<>>>>)]
          [] a.kind = "longTraversal" -> [base EXCEPT !.traversal = Append(p.traversal, 0)]
          [] OTHER -> base

Min(a, b) == IF a < b THEN a ELSE b

RECURSIVE FoldedRoot(_, _, _)
\* The digest reached by hashing up the levels of c from i on, placing the
\* current digest at traversal[i], or last when that is past the end.
FoldedRoot(c, i, curr_hash) ==
    IF i > Min(Len(c.path), Min(Len(c.parents), Len(c.traversal)))
    THEN curr_hash
    ELSE FoldedRoot(c, i + 1,
                    calculate_root(c.parents[i][1], c.parents[i][2],
                                   node_hashes_append(c.path[i], c.traversal[i], curr_hash).list))

Pending == [outcome |-> "pending", hashes |-> 0, placed |-> <<>>]

Idle == [outcome |-> "idle"]

InitTrie ==
    /\ \E shape \in Shapes, a \in Alterations, r \in {"trie", "folded", "junk"},
          f \in -1..MaxLevels :
          \* a failing hash is tried against the root the call would reach
          (f >= 0 => r = "folded") /\
          LET trie == BuildTrie(shape, Len(shape), 1, 1)
              p == GenerateProof(trie, 1)
              c == Altered(p, a)
              root == CASE r = "trie" -> TrieRoot(trie)
                        [] r = "folded" -> FoldedRoot(c, 1, calculate_root(c.key, <<c.value>>, <<>>))
                        [] OTHER -> JunkDigest
          IN  /\ Applies(p, a)
              /\ call = [path |-> c.path, parents |-> c.parents, traversal |-> c.traversal,
                         root_hash |-> root, key |-> c.key, value |-> c.value, crhFailAt |-> f]
              /\ origin = [shape |-> shape, alteration |-> a, root |-> r,
                           proof |-> p, trieRoot |-> TrieRoot(trie)]
    /\ result = Pending
    /\ circuit = Idle
    /\ made = Idle
    /\ synth = Idle
    /\ args = Idle
    /\ built = Idle
    /\ wire = Idle

\* One call of MerkleTriePath::verify.
Verify ==
    /\ result.outcome = "pending"
    /\ result' = verify(call)
    /\ UNCHANGED <<call, origin, circuit, made, synth, args, built, wire>>

NextTrie == Verify

SpecTrie == InitTrie /\ [][NextTrie]_vars

(***************************************************************************)
(* Properties of MerkleTriePath::verify, checked under SpecTrie.           *)
(***************************************************************************)
Returned == result.outcome # "pending"

\* The levels of the call that have both a sibling list and a traversal index.
Levels == 1..Min(Len(call.path), Len(call.traversal))

OutOfRange(i) == call.traversal[i] > Len(call.path[i])

SameLengths == Len(call.path) = Len(call.traversal) /\ Len(call.parents) = Len(call.traversal)

\* C1: verify on a path with zero levels (path, parents and traversal all
\* empty) returns false for every root, key and value, whatever the outcome
\* of hashing the leaf.
C1_EmptyPathReturnsFalse ==
    (Returned /\ call.path = <<>> /\ call.parents = <<>> /\ call.traversal = <<>>)
        => result.outcome = "false"

\* C2: with no hash failing, verify returns true for the path built from the
\* trie for the (key, value) of a leaf below the root against the trie's root,
\* and returns false when one sibling digest of that path is changed, when the
\* traversal indices are reordered, or when another value is supplied for the
\* same key.
C2_PathSoundness ==
    (Returned /\ call.crhFailAt = -1 /\ origin.root = "trie" /\ origin.shape # <<>>)
        => /\ origin.alteration.kind = "none" => result.outcome = "true"
           /\ origin.alteration.kind \in {"sibling", "reorder", "value"}
                => result.outcome = "false"

\* C3: when some level i has traversal[i] greater than the number of sibling
\* digests of that level, verify never returns true, never hashes level i,
\* and every level it did hash had the current digest at exactly traversal[l].
C3_OutOfRangeIndexRejected ==
    Returned =>
        \A i \in Levels :
            OutOfRange(i) =>
                /\ result.outcome # "true"
                /\ Len(result.placed) < i
                /\ \A l \in 1..Len(result.placed) : result.placed[l] = call.traversal[l]

\* A call whose second level is out of range while its first is not, against
\* the root that appending the digest at the second level would give: verify
\* hashed the first level and stopped with a panic.
C3_Witness ==
    /\ Returned
    /\ SameLengths
    /\ Len(call.path) >= 2
    /\ ~OutOfRange(1)
    /\ OutOfRange(2)
    /\ origin.root = "folded"
    /\ call.crhFailAt = -1
    /\ result.outcome = "panic"
    /\ Len(result.placed) = 1

\* C4: when path, parents and traversal do not all have the same length,
\* verify ends by the failed length assertion (neither true nor false nor a
\* hash error) before any hash is computed; when the three lengths are equal
\* and every traversal index is in range, verify never ends by a panic.
C4_LengthMismatchFailsFirst ==
    Returned =>
        /\ ~SameLengths => (result.outcome = "panic" /\ result.hashes = 0)
        /\ (SameLengths /\ \A i \in Levels : ~OutOfRange(i)) => result.outcome # "panic"

\* A call with one parent too few, whose leaf hash would also fail: the
\* assertion ends it with no hash attempted.
C4_Witness ==
    /\ Returned
    /\ Len(call.parents) < Len(call.traversal)
    /\ Len(call.path) = Len(call.traversal)
    /\ call.crhFailAt = 0
    /\ result.outcome = "panic"
    /\ result.hashes = 0

(***************************************************************************)
(* The inner circuit.                                                      *)
(*                                                                         *)
(* Protocol constants (Network::NUM_INPUT_RECORDS, NUM_OUTPUT_RECORDS).    *)
(***************************************************************************)
NUM_INPUT_RECORDS == 2
NUM_OUTPUT_RECORDS == 2

\* Width in bytes of a record value and of the value balance (u64 / i64 in
\* the code, scaled down so that the values can be enumerated).
ValueBytes == 1
\* Length in bytes of a record payload.
PayloadBytes == 2

ValueModulus == 2 ^ (8 * ValueBytes)
SignedMax == (ValueModulus \div 2) - 1
SignedMin == -(ValueModulus \div 2)

(***************************************************************************)
(* Encodings.                                                              *)
(***************************************************************************)
\* to_bytes_le of an unsigned integer of n bytes.
to_bytes_le(v, n) == [k \in 1..n |-> (v \div (256 ^ (k - 1))) % 256]

\* `value as i64`: the same bits read as a signed integer.
as_signed(v) == IF v > SignedMax THEN v - ValueModulus ELSE v

\* to_bytes of a signed integer: its two's complement, little endian.
signed_to_bytes(x) == to_bytes_le((x + ValueModulus) % ValueModulus, ValueBytes)

\* to_constraint_field: the bytes packed little endian into field elements,
\* two bytes to an element, the last element padded with zero.
to_constraint_field(bytes) ==
    [k \in 1..((Len(bytes) + 1) \div 2) |->
        bytes[2 * k - 1] + 256 * (IF 2 * k <= Len(bytes) THEN bytes[2 * k] ELSE 0)]

\* Boolean::to_bytes.
bool_to_bytes(b) == IF b THEN <<1>> ELSE <<0>>

\* Program ids are two bytes wide.
program_id_bytes(id) == to_bytes_le(id, 2)

\* The reserved no-op program id and the executable program ids used here.
NoopProgramId == 700
ProgramP == 701
OtherProgramId == ProgramP + 1
\* public.program_id is an Option: the value that stands for None.
NoProgramId == -1

\* Payload::default().
EmptyPayload == [k \in 1..PayloadBytes |-> 0]
SomePayload == [k \in 1..PayloadBytes |-> IF k = 1 THEN 5 ELSE 0]

(***************************************************************************)
(* Primitives, each modelled without collisions: the output is the term of *)
(* the inputs.                                                             *)
(***************************************************************************)
\* The serial number PRF: seed sk_prf, input the nonce (a digest, as bytes).
PRF(sk_prf, nonce) == <<sk_prf>> \o nonce

\* ComputeKey::from_signature(signature).sk_prf(): derived from the public
\* part pk_sig the signature carries; no compute key for pk_sig < 0.
compute_key_derivable(signature) == signature.pk_sig >= 0
sk_prf_of(signature) == 1000 + signature.pk_sig

\* The record commitment over the input bytes under the randomness.
Commit(input, randomness) == [input |-> input, randomness |-> randomness]

\* Account encryption of the plaintext bytes to public_key under randomness.
Encrypt(randomness, public_key, plaintext) ==
    [randomness |-> randomness, public_key |-> public_key, plaintext |-> plaintext]

\* The encrypted-record CRH and the transaction-id CRH.
EncryptedRecordCRH(ciphertext) == [ciphertext |-> ciphertext]
TransactionIdCRH(message) == [preimage |-> message]

\* The signature scheme: a signature verifies under public_key over message
\* exactly when it was made by that key over that message.
signature_verify(public_key, message, signature) ==
    signature.signer = public_key /\ signature.message = message

\* The commitments tree: the root a membership witness gives for a leaf.  A
\* witness holds the leaf's position and the other leaves' digests.
merkle_root(witness, leaf) ==
    IF witness.index <= Len(witness.siblings)
    THEN [leaves |-> InsertAt(witness.siblings, witness.index, leaf)]
    ELSE [leaves |-> <<>>]

\* Int64 addition of the gadget: an error when the sum leaves the range.
int_add(a, b) ==
    IF a + b > SignedMax \/ a + b < SignedMin
    THEN [ok |-> FALSE, value |-> 0]
    ELSE [ok |-> TRUE, value |-> a + b]

\* Int64 subtraction of the gadget: a plus the negation of b; the negation
\* of the least value is an error.
int_sub(a, b) ==
    IF b = SignedMin THEN [ok |-> FALSE, value |-> 0] ELSE int_add(a, -b)

(***************************************************************************)
(* InnerCircuit::generate_constraints on a circuit c = (public, private).  *)
(* Each enforced equality of the code is a check; generate_constraints     *)
(* leaves the constraint system satisfied exactly when no check fails.     *)
(***************************************************************************)
\* lines 141-148: the input loop runs over the zip of four vectors.
processed_inputs(c) ==
    Min(Min(Len(c.input_records), Len(c.input_witnesses)),
        Min(Len(c.signatures), Len(c.kernel.serial_numbers)))

\* lines 377-384: the output loop runs over the zip of four vectors.
processed_outputs(c) ==
    Min(Min(Len(c.output_records), Len(c.kernel.commitments)),
        Min(Len(c.encrypted_record_randomizers), Len(c.encrypted_record_ids)))

\* lines 267-286: the serial number recomputed for input i.
candidate_serial_number(c, i) ==
    PRF(sk_prf_of(c.signatures[i]), c.input_records[i].serial_number_nonce)

\* lines 347-365 and 530-547: the commitment recomputed for a record.
candidate_commitment(record) ==
    Commit(<<record.owner>>
             \o bool_to_bytes(record.is_dummy)
             \o to_bytes_le(record.value, ValueBytes)
             \o record.payload
             \o program_id_bytes(record.program_id)
             \o record.serial_number_nonce,
           record.commitment_randomness)


\* A variant of the no-op checks that leaves out the payload.
noop_checks_no_payload(record, who, i) ==
    (IF record.is_dummy
        /\ to_constraint_field(to_bytes_le(record.value, ValueBytes))
            # to_constraint_field(to_bytes_le(0, ValueBytes))
     THEN {<<who \o "_noop_value", i>>} ELSE {})
    \cup (IF record.is_dummy
             /\ to_constraint_field(program_id_bytes(record.program_id))
                # to_constraint_field(program_id_bytes(NoopProgramId))
          THEN {<<who \o "_noop_program_id", i>>} ELSE {})

\* lines 316-344 and 499-527: if the record is a dummy, its value is 0, its
\* payload empty and its program id the no-op id (compared as field elements).
noop_checks(record, who, i) ==
    (IF record.is_dummy
        /\ to_constraint_field(to_bytes_le(record.value, ValueBytes))
            # to_constraint_field(to_bytes_le(0, ValueBytes))
     THEN {<<who \o "_noop_value", i>>} ELSE {})
    \cup (IF record.is_dummy
             /\ to_constraint_field(record.payload) # to_constraint_field(EmptyPayload)
          THEN {<<who \o "_noop_payload", i>>} ELSE {})
    \cup (IF record.is_dummy
             /\ to_constraint_field(program_id_bytes(record.program_id))
                # to_constraint_field(program_id_bytes(NoopProgramId))
          THEN {<<who \o "_noop_program_id", i>>} ELSE {})

\* A variant of the membership check that is enforced for dummies too.
membership_check_unconditional(c, i) ==
    IF merkle_root(c.input_witnesses[i], c.input_records[i].commitment) # c.ledger_digest
    THEN {<<"membership", i>>} ELSE {}

\* lines 241-256: the witness leads from the record's commitment to the
\* ledger digest, enforced when the record is not a dummy.
membership_check(c, i) ==
    IF ~c.input_records[i].is_dummy
       /\ merkle_root(c.input_witnesses[i], c.input_records[i].commitment) # c.ledger_digest
    THEN {<<"membership", i>>} ELSE {}

\* A variant of the serial number check that is skipped for dummies.
serial_number_check_skip_dummy(c, i) ==
    IF ~c.input_records[i].is_dummy
       /\ candidate_serial_number(c, i) # c.kernel.serial_numbers[i]
    THEN {<<"serial_number", i>>} ELSE {}

\* lines 288-297: the recomputed serial number equals the kernel's at index i.
serial_number_check(c, i) ==
    IF candidate_serial_number(c, i) # c.kernel.serial_numbers[i]
    THEN {<<"serial_number", i>>} ELSE {}

\* A variant of the commitment check that recomputes without the randomness.
commitment_check_no_randomness(record, who, i) ==
    IF candidate_commitment(record).input # record.commitment.input
    THEN {<<who \o "_commitment", i>>} ELSE {}

\* lines 361-370 and 543-551: the recomputed commitment equals the declared one.
commitment_check(record, who, i) ==
    IF candidate_commitment(record) # record.commitment
    THEN {<<who \o "_commitment", i>>} ELSE {}

\* lines 262-371: the checks of input i.
input_checks(c, i) ==
    membership_check(c, i)
    \cup serial_number_check(c, i)
    \cup noop_checks(c.input_records[i], "input", i)
    \cup commitment_check(c.input_records[i], "input", i)

\* A variant of the kernel commitment check that accepts the record's
\* commitment anywhere in the kernel.
kernel_commitment_check_any_index(c, j) ==
    IF c.output_records[j].commitment \notin Range(c.kernel.commitments)
    THEN {<<"kernel_commitment", j>>} ELSE {}

\* lines 430-451: the record's commitment equals the kernel's at index j.
kernel_commitment_check(c, j) ==
    IF c.output_records[j].commitment # c.kernel.commitments[j]
    THEN {<<"kernel_commitment", j>>} ELSE {}

\* A variant of the nonce check that accepts any input's serial number.
serial_number_nonce_check_any_index(c, j) ==
    IF \A i \in 1..processed_inputs(c) :
          candidate_serial_number(c, i) # c.output_records[j].serial_number_nonce
    THEN {<<"serial_number_nonce", j>>} ELSE {}

\* lines 480-489: the serial number derived for input j equals the nonce of
\* output j (j is within the processed inputs, see nonce_lookup_panics).
serial_number_nonce_check(c, j) ==
    IF candidate_serial_number(c, j) # c.output_records[j].serial_number_nonce
    THEN {<<"serial_number_nonce", j>>} ELSE {}

\* lines 567-606: the record's ciphertext.
candidate_encrypted_record(c, j) ==
    LET record == c.output_records[j]
    IN  Encrypt(c.encrypted_record_randomizers[j], record.owner,
                to_bytes_le(record.value, ValueBytes)
                  \o record.payload
                  \o program_id_bytes(record.program_id)
                  \o record.serial_number_nonce
                  \o <<record.commitment_randomness>>)

\* A variant of the encryption check that does not bind the encryption
\* randomness: any ciphertext of the plaintext to the owner passes.
encryption_check_any_randomness(c, j) ==
    IF candidate_encrypted_record(c, j).public_key # c.encrypted_record_ids[j].ciphertext.public_key
       \/ candidate_encrypted_record(c, j).plaintext
            # c.encrypted_record_ids[j].ciphertext.plaintext
    THEN {<<"encrypted_record_id", j>>} ELSE {}

\* lines 611-627: the digest of the ciphertext equals the public id at index j.
encryption_check(c, j) ==
    IF EncryptedRecordCRH(candidate_encrypted_record(c, j)) # c.encrypted_record_ids[j]
    THEN {<<"encrypted_record_id", j>>} ELSE {}

\* lines 387-628: the checks of output j.
output_checks(c, j) ==
    kernel_commitment_check(c, j)
    \cup serial_number_nonce_check(c, j)
    \cup noop_checks(c.output_records[j], "output", j)
    \cup commitment_check(c.output_records[j], "output", j)
    \cup encryption_check(c, j)

\* A variant of the capacity checks that bounds the number of inputs only.
capacity_checks_inputs_only(c) ==
    IF c.circuit_type.input_count > NUM_INPUT_RECORDS THEN {<<"input_capacity", 0>>} ELSE {}

\* lines 648-680: the declared counts are within the capacities (as u8).
capacity_checks(c) ==
    (IF c.circuit_type.input_count > NUM_INPUT_RECORDS THEN {<<"input_capacity", 0>>} ELSE {})
    \cup (IF c.circuit_type.output_count > NUM_OUTPUT_RECORDS
          THEN {<<"output_capacity", 0>>} ELSE {})

\* A variant of the program id check without the rule for the records at or
\* above the declared count.
program_id_check_in_range_only(program_id, k, count, executable, who) ==
    IF k - 1 < count
       /\ to_constraint_field(program_id_bytes(program_id))
            # to_constraint_field(program_id_bytes(executable))
    THEN {<<who \o "_program_id", k>>} ELSE {}

\* lines 682-732: a record at an index below the declared count carries the
\* executable's program id, one at or above it the no-op id.  Index k is 1-based.
program_id_check(program_id, k, count, executable, who) ==
    IF (k - 1 < count
          /\ to_constraint_field(program_id_bytes(program_id))
               # to_constraint_field(program_id_bytes(executable)))
       \/ (~(k - 1 < count)
          /\ to_constraint_field(program_id_bytes(program_id))
               # to_constraint_field(program_id_bytes(NoopProgramId)))
    THEN {<<who \o "_program_id", k>>} ELSE {}

program_id_checks(c) ==
    UNION {program_id_check(c.input_records[i].program_id, i, c.circuit_type.input_count,
                            c.program_id, "input") :
             i \in 1..Min(processed_inputs(c), NUM_INPUT_RECORDS)}
    \cup UNION {program_id_check(c.output_records[j].program_id, j,
                                 c.circuit_type.output_count, c.program_id, "output") :
                  j \in 1..Min(processed_outputs(c), NUM_OUTPUT_RECORDS)}

RECURSIVE add_values(_, _, _)
\* lines 747-754: the values of the input records from k on added to acc.
add_values(records, k, acc) ==
    IF ~acc.ok \/ k > Len(records) THEN acc
    ELSE add_values(records, k + 1, int_add(acc.value, as_signed(records[k].value)))

RECURSIVE sub_values(_, _, _)
\* lines 756-763: the values of the output records from k on subtracted from acc.
sub_values(records, k, acc) ==
    IF ~acc.ok \/ k > Len(records) THEN acc
    ELSE sub_values(records, k + 1, int_sub(acc.value, as_signed(records[k].value)))

\* lines 745-763: the balance over all input and all output records.
candidate_value_balance(c) ==
    sub_values(c.output_records, 1, add_values(c.input_records, 1, [ok |-> TRUE, value |-> 0]))

\* A variant of the value balance check that lets the declared balance
\* exceed the candidate.
value_balance_check_no_deficit(c) ==
    IF candidate_value_balance(c).value > c.kernel.value_balance
    THEN {<<"value_balance", 0>>} ELSE {}

\* lines 766-769.
value_balance_check(c) ==
    IF candidate_value_balance(c).value # c.kernel.value_balance
    THEN {<<"value_balance", 0>>} ELSE {}

\* lines 787-792: network id, the recomputed serial numbers, the output
\* records' commitments, the declared value balance, the memo.
signature_message(c) ==
    << to_bytes_le(c.kernel.network_id, 2),
       [i \in 1..processed_inputs(c) |-> candidate_serial_number(c, i)],
       [j \in 1..processed_outputs(c) |-> c.output_records[j].commitment],
       signed_to_bytes(c.kernel.value_balance),
       c.kernel.memo >>

\* A variant of the transaction id check that compares the serial numbers
\* and the commitments without regard to their order.
transaction_id_check_unordered(c) ==
    LET message == signature_message(c)
        given == c.transaction_id.preimage
    IN  IF Len(given) # 5
           \/ message[1] # given[1]
           \/ Range(message[2]) # Range(given[2])
           \/ Range(message[3]) # Range(given[3])
           \/ message[4] # given[4]
           \/ message[5] # given[5]
        THEN {<<"transaction_id", 0>>} ELSE {}

\* lines 794-808.
transaction_id_check(c) ==
    IF TransactionIdCRH(signature_message(c)) # c.transaction_id
    THEN {<<"transaction_id", 0>>} ELSE {}

\* A variant of the signature checks that accepts a signature made by the
\* owner of any processed input.
signature_checks_any_owner(c) ==
    {<<"signature", i>> : i \in {k \in 1..processed_inputs(c) :
        \A n \in 1..processed_inputs(c) :
            ~signature_verify(c.input_records[n].owner, signature_message(c), c.signatures[k])}}

\* A variant of signature_checks that verifies the signatures of non-dummy inputs only.
signature_checks_skip_dummy(c) ==
    {<<"signature", i>> : i \in {k \in 1..processed_inputs(c) :
        /\ ~c.input_records[k].is_dummy
        /\ ~signature_verify(c.input_records[k].owner, signature_message(c), c.signatures[k])}}

\* lines 820-839: every processed input's signature verifies under the
\* record owner's key over the signature message.
signature_checks(c) ==
    {<<"signature", i>> : i \in {k \in 1..processed_inputs(c) :
        ~signature_verify(c.input_records[k].owner, signature_message(c), c.signatures[k])}}

\* lines 268-269: .expect() on a signature that gives no compute key.
compute_key_panics(c) ==
    \E i \in 1..processed_inputs(c) : ~compute_key_derivable(c.signatures[i])

\* line 483: old_serial_numbers_gadgets[j] with j past the processed inputs.
nonce_lookup_panics(c) == processed_outputs(c) > processed_inputs(c)

\* lines 751-753 and 760-762: .unwrap() on an addition or subtraction that overflowed.
value_balance_panics(c) == ~candidate_value_balance(c).ok

\* line 642: .unwrap() on a public program id that is None.
program_id_panics(c) == c.program_id = NoProgramId

\* A variant of generate_constraints in which a valid transaction id stands
\* in for the signatures: they are checked only when the id check fails.
generate_constraints_id_covers_signatures(c) ==
    IF compute_key_panics(c) \/ nonce_lookup_panics(c) \/ program_id_panics(c)
       \/ value_balance_panics(c)
    THEN [outcome |-> "panic", failed |-> {}]
    ELSE LET failed ==
                 UNION {input_checks(c, i) : i \in 1..processed_inputs(c)}
                 \cup UNION {output_checks(c, j) : j \in 1..processed_outputs(c)}
                 \cup capacity_checks(c)
                 \cup program_id_checks(c)
                 \cup value_balance_check(c)
                 \cup transaction_id_check(c)
                 \cup (IF transaction_id_check(c) = {} THEN {} ELSE signature_checks(c))
         IN  [outcome |-> IF failed = {} THEN "satisfied" ELSE "unsatisfied",
              failed |-> failed]

\* lines 57-843.
generate_constraints(c) ==
    IF compute_key_panics(c) \/ nonce_lookup_panics(c) \/ program_id_panics(c)
       \/ value_balance_panics(c)
    THEN [outcome |-> "panic", failed |-> {}]
    ELSE LET failed ==
                 UNION {input_checks(c, i) : i \in 1..processed_inputs(c)}
                 \cup UNION {output_checks(c, j) : j \in 1..processed_outputs(c)}
                 \cup capacity_checks(c)
                 \cup program_id_checks(c)
                 \cup value_balance_check(c)
                 \cup transaction_id_check(c)
                 \cup signature_checks(c)
         IN  [outcome |-> IF failed = {} THEN "satisfied" ELSE "unsatisfied",
              failed |-> failed]

(***************************************************************************)
(* The circuits that are checked.  A plan fixes the free fields of every   *)
(* record; the transaction assembler derives the rest from it (the         *)
(* commitments, the ledger and its witnesses, the serial numbers, the      *)
(* kernel, the transaction id, the signatures, the encrypted record ids).  *)
(* A circuit is the one derived from a plan, with at most one field of the *)
(* plan changed before the derivation and at most one derived field        *)
(* altered after it.                                                       *)
(***************************************************************************)
JunkCommitment == [input |-> <<>>, randomness |-> -1]
JunkSerialNumber == <<0, 0>>

\* Commit(owner, dummy, value, payload, program_id, serial_number_nonce; randomness).
RecordCommitment(record) ==
    Commit(<<record.owner>> \o bool_to_bytes(record.is_dummy)
             \o to_bytes_le(record.value, ValueBytes) \o record.payload
             \o program_id_bytes(record.program_id) \o record.serial_number_nonce,
           record.commitment_randomness)

\* The bytes of a transaction kernel: network id, serial numbers,
\* commitments, value balance, memo.
KernelBytes(kernel) ==
    << to_bytes_le(kernel.network_id, 2), kernel.serial_numbers, kernel.commitments,
       signed_to_bytes(kernel.value_balance), kernel.memo >>

\* The id of the encryption of (value, payload, program_id,
\* serial_number_nonce, commitment_randomness) to the record's owner.
EncryptedRecordId(record, randomizer) ==
    EncryptedRecordCRH(
        Encrypt(randomizer, record.owner,
                to_bytes_le(record.value, ValueBytes) \o record.payload
                  \o program_id_bytes(record.program_id) \o record.serial_number_nonce
                  \o <<record.commitment_randomness>>))

Sum(f, n) == LET RECURSIVE S(_)
                 S(k) == IF k = 0 THEN 0 ELSE f[k] + S(k - 1)
             IN  S(n)

\* The plan of a transaction with nIn real inputs and nOut real outputs, the
\* remaining slots filled with dummies; profile picks the values.
HonestPlan(nIn, nOut, profile) ==
    [inputs |-> [i \in 1..NUM_INPUT_RECORDS |->
                    IF i <= nIn
                    THEN [is_dummy |-> FALSE,
                          value |-> IF profile = 1 /\ i > 1 THEN 1 ELSE 10,
                          payload |-> SomePayload, program_id |-> ProgramP]
                    ELSE [is_dummy |-> TRUE, value |-> 0,
                          payload |-> EmptyPayload, program_id |-> NoopProgramId]],
     outputs |-> [j \in 1..NUM_OUTPUT_RECORDS |->
                    IF j <= nOut
                    THEN [is_dummy |-> FALSE,
                          value |-> IF (profile = 1) = (j = 1) THEN 10 ELSE 1,
                          payload |-> SomePayload, program_id |-> ProgramP,
                          nonce_from |-> "same"]
                    ELSE [is_dummy |-> TRUE, value |-> 0,
                          payload |-> EmptyPayload, program_id |-> NoopProgramId,
                          nonce_from |-> "same"]],
     input_count |-> nIn,
     output_count |-> nOut,
     declared_balance |-> [fixed |-> FALSE, value |-> 0]]

Plans ==
    {HonestPlan(nIn, nOut, 1) : nIn \in 0..NUM_INPUT_RECORDS, nOut \in 0..NUM_OUTPUT_RECORDS}
    \cup {HonestPlan(NUM_INPUT_RECORDS, NUM_OUTPUT_RECORDS, 2)}

\* The balance of a plan's records: the input values less the output values.
PlanBalance(plan) ==
    Sum([i \in 1..Len(plan.inputs) |-> as_signed(plan.inputs[i].value)], Len(plan.inputs))
    - Sum([j \in 1..Len(plan.outputs) |-> as_signed(plan.outputs[j].value)], Len(plan.outputs))

\* The signed integer of the word size that is congruent to x.
WrapSigned(x) == ((x - SignedMin) % ValueModulus) + SignedMin

NoChange == [kind |-> "none", who |-> "none", k |-> 0, x |-> 0]

\* The values a record's value may be changed to.
ValueChoices == {0, 11, SignedMax + 1, ValueModulus - 1}

RecordSlots ==
    {<<"input", k>> : k \in 1..NUM_INPUT_RECORDS}
    \cup {<<"output", k>> : k \in 1..NUM_OUTPUT_RECORDS}

PlanChanges ==
    {NoChange}
    \cup {[kind |-> "is_dummy", who |-> r[1], k |-> r[2], x |-> 0] : r \in RecordSlots}
    \cup {[kind |-> "value", who |-> r[1], k |-> r[2], x |-> x] :
            r \in RecordSlots, x \in ValueChoices}
    \cup {[kind |-> "payload", who |-> r[1], k |-> r[2], x |-> 0] : r \in RecordSlots}
    \cup {[kind |-> "program_id", who |-> r[1], k |-> r[2], x |-> x] :
            r \in RecordSlots, x \in {NoopProgramId, ProgramP, OtherProgramId}}
    \cup {[kind |-> "nonce_from", who |-> "output", k |-> k, x |-> x] :
            k \in 1..NUM_OUTPUT_RECORDS, x \in {1, 2}}
    \cup {[kind |-> "value_fixed_balance", who |-> r[1], k |-> r[2], x |-> 11] :
            r \in RecordSlots}
    \cup {[kind |-> "balance", who |-> "kernel", k |-> 0, x |-> x] : x \in {-1, 1}}

ChangedFields(f, d) ==
    CASE d.kind = "is_dummy" -> [f EXCEPT !.is_dummy = ~f.is_dummy]
      [] d.kind \in {"value", "value_fixed_balance"} -> [f EXCEPT !.value = d.x]
      [] d.kind = "payload" ->
            [f EXCEPT !.payload = IF f.payload = EmptyPayload THEN SomePayload ELSE EmptyPayload]
      [] d.kind = "program_id" -> [f EXCEPT !.program_id = d.x]
      [] d.kind = "nonce_from" -> [f EXCEPT !.nonce_from = IF d.x = 1 THEN "other" ELSE "junk"]
      [] OTHER -> f

\* A changed value leaves the balance to follow it, unless the change keeps
\* the balance the kernel declared for the unchanged records.
ChangedPlan(plan, d) ==
    LET declared ==
            CASE d.kind = "value_fixed_balance" -> [fixed |-> TRUE, value |-> PlanBalance(plan)]
              [] d.kind = "balance" -> [fixed |-> TRUE, value |-> PlanBalance(plan) + d.x]
              [] OTHER -> plan.declared_balance
        records ==
            CASE d.who = "input" ->
                    [plan EXCEPT !.inputs[d.k] = ChangedFields(plan.inputs[d.k], d)]
              [] d.who = "output" ->
                    [plan EXCEPT !.outputs[d.k] = ChangedFields(plan.outputs[d.k], d)]
              [] OTHER -> plan
    IN  [records EXCEPT !.declared_balance = declared]

\* The key material of the account that owns input i.
AccountPkSig(i) == 20 + i

\* The circuit the assembler derives from a plan.
Derive(plan) ==
    LET nIn == Len(plan.inputs)
        nOut == Len(plan.outputs)
        input_fields(i) ==
            [owner |-> i, is_dummy |-> plan.inputs[i].is_dummy, value |-> plan.inputs[i].value,
             payload |-> plan.inputs[i].payload, program_id |-> plan.inputs[i].program_id,
             serial_number_nonce |-> <<30 + i>>, commitment_randomness |-> 40 + i,
             commitment |-> JunkCommitment]
        input_records ==
            [i \in 1..nIn |->
                [input_fields(i) EXCEPT !.commitment = RecordCommitment(input_fields(i))]]
        leaves == [i \in 1..nIn |-> input_records[i].commitment]
        serial_numbers ==
            [i \in 1..nIn |-> PRF(sk_prf_of([pk_sig |-> AccountPkSig(i)]),
                                  input_records[i].serial_number_nonce)]
        nonce(j) ==
            CASE plan.outputs[j].nonce_from = "same" /\ j <= nIn -> serial_numbers[j]
              [] plan.outputs[j].nonce_from = "other" /\ nIn >= 2 ->
                    serial_numbers[IF j = 1 THEN 2 ELSE 1]
              [] OTHER -> JunkSerialNumber
        output_fields(j) ==
            [owner |-> 10 + j, is_dummy |-> plan.outputs[j].is_dummy,
             value |-> plan.outputs[j].value, payload |-> plan.outputs[j].payload,
             program_id |-> plan.outputs[j].program_id,
             serial_number_nonce |-> nonce(j), commitment_randomness |-> 60 + j,
             commitment |-> JunkCommitment]
        output_records ==
            [j \in 1..nOut |->
                [output_fields(j) EXCEPT !.commitment = RecordCommitment(output_fields(j))]]
        kernel ==
            [network_id |-> 1,
             serial_numbers |-> serial_numbers,
             commitments |-> [j \in 1..nOut |-> output_records[j].commitment],
             value_balance |-> IF plan.declared_balance.fixed
                               THEN plan.declared_balance.value
                               ELSE WrapSigned(PlanBalance(plan)),
             memo |-> <<7, 7>>]
    IN  [ledger_digest |-> [leaves |-> leaves],
         program_id |-> ProgramP,
         encrypted_record_ids |->
            [j \in 1..nOut |-> EncryptedRecordId(output_records[j], 70 + j)],
         transaction_id |-> TransactionIdCRH(KernelBytes(kernel)),
         input_records |-> input_records,
         input_witnesses |->
            [i \in 1..nIn |->
                [index |-> i - 1,
                 siblings |-> [k \in 1..(nIn - 1) |-> leaves[IF k < i THEN k ELSE k + 1]]]],
         signatures |->
            [i \in 1..nIn |-> [signer |-> input_records[i].owner,
                               message |-> KernelBytes(kernel),
                               pk_sig |-> AccountPkSig(i)]],
         output_records |-> output_records,
         encrypted_record_randomizers |-> [j \in 1..nOut |-> 70 + j],
         kernel |-> kernel,
         circuit_type |-> [input_count |-> plan.input_count,
                           output_count |-> plan.output_count]]

NoTamper == [kind |-> "none", k |-> 0, x |-> 0]

InputTampers ==
    {"witness", "kernel_serial_number", "sig_pk", "sig_underivable", "sig_message",
     "sig_signer", "sig_other_owner", "in_owner", "in_is_dummy", "in_value", "in_payload", "in_program_id",
     "in_nonce", "in_randomness", "in_commitment"}

OutputTampers ==
    {"kernel_commitment", "out_owner", "out_is_dummy", "out_value", "out_payload",
     "out_program_id", "out_nonce", "out_randomness", "out_commitment",
     "enc_randomizer", "enc_id"}

GlobalTampers ==
    {"ledger_digest", "swap_serial_numbers", "swap_commitments", "balance_up",
     "balance_down", "transaction_id", "transaction_id_swapped_serial_numbers",
     "transaction_id_swapped_commitments", "memo", "network_id", "program_id",
     "program_id_none",
     "short_input_records", "short_witnesses", "short_signatures",
     "short_serial_numbers", "short_output_records", "short_commitments",
     "short_randomizers", "short_encrypted_record_ids",
     "long_input_records", "long_output_records"}

Tampers ==
    {NoTamper}
    \cup {[kind |-> t, k |-> k, x |-> 0] : t \in InputTampers, k \in 1..NUM_INPUT_RECORDS}
    \cup {[kind |-> t, k |-> k, x |-> 0] : t \in OutputTampers, k \in 1..NUM_OUTPUT_RECORDS}
    \cup {[kind |-> t, k |-> 0, x |-> 0] : t \in GlobalTampers}
    \cup {[kind |-> t, k |-> 0, x |-> x] :
            t \in {"input_count", "output_count"},
            x \in (0..(NUM_INPUT_RECORDS + 1)) \cup {255}}

Swapped(s) == IF Len(s) >= 2 THEN [s EXCEPT ![1] = s[2], ![2] = s[1]] ELSE s

OtherValue(v) == IF v = ValueModulus - 1 THEN v - 1 ELSE v + 1

OtherPayload(p) == IF p = EmptyPayload THEN SomePayload ELSE EmptyPayload

OtherProgram(id) == IF id = OtherProgramId THEN ProgramP ELSE OtherProgramId

\* The circuit c with the derived field named by t altered.
Tampered(c, t) ==
    CASE t.kind = "witness" ->
            [c EXCEPT !.input_witnesses[t.k].siblings =
                        [n \in 1..Len(@) |-> JunkCommitment],
                      !.input_witnesses[t.k].index =
                        IF c.input_witnesses[t.k].siblings = <<>> THEN 1 ELSE @]
      [] t.kind = "kernel_serial_number" ->
            [c EXCEPT !.kernel.serial_numbers[t.k] = JunkSerialNumber]
      [] t.kind = "sig_pk" -> [c EXCEPT !.signatures[t.k].pk_sig = 99]
      [] t.kind = "sig_underivable" -> [c EXCEPT !.signatures[t.k].pk_sig = -1]
      [] t.kind = "sig_message" -> [c EXCEPT !.signatures[t.k].message[5] = <<6, 6>>]
      [] t.kind = "sig_signer" -> [c EXCEPT !.signatures[t.k].signer = 9]
      [] t.kind = "sig_other_owner" ->
            [c EXCEPT !.signatures[t.k].signer =
                        c.input_records[IF t.k = 1 THEN Len(c.input_records) ELSE 1].owner]
      [] t.kind = "in_owner" -> [c EXCEPT !.input_records[t.k].owner = 9]
      [] t.kind = "in_is_dummy" -> [c EXCEPT !.input_records[t.k].is_dummy = ~@]
      [] t.kind = "in_value" -> [c EXCEPT !.input_records[t.k].value = OtherValue(@)]
      [] t.kind = "in_payload" -> [c EXCEPT !.input_records[t.k].payload = OtherPayload(@)]
      [] t.kind = "in_program_id" ->
            [c EXCEPT !.input_records[t.k].program_id = OtherProgram(@)]
      [] t.kind = "in_nonce" -> [c EXCEPT !.input_records[t.k].serial_number_nonce = <<39>>]
      [] t.kind = "in_randomness" ->
            [c EXCEPT !.input_records[t.k].commitment_randomness = 49]
      [] t.kind = "in_commitment" -> [c EXCEPT !.input_records[t.k].commitment = JunkCommitment]
      [] t.kind = "kernel_commitment" ->
            [c EXCEPT !.kernel.commitments[t.k] = JunkCommitment]
      [] t.kind = "out_owner" -> [c EXCEPT !.output_records[t.k].owner = 19]
      [] t.kind = "out_is_dummy" -> [c EXCEPT !.output_records[t.k].is_dummy = ~@]
      [] t.kind = "out_value" -> [c EXCEPT !.output_records[t.k].value = OtherValue(@)]
      [] t.kind = "out_payload" -> [c EXCEPT !.output_records[t.k].payload = OtherPayload(@)]
      [] t.kind = "out_program_id" ->
            [c EXCEPT !.output_records[t.k].program_id = OtherProgram(@)]
      [] t.kind = "out_nonce" ->
            [c EXCEPT !.output_records[t.k].serial_number_nonce = JunkSerialNumber]
      [] t.kind = "out_randomness" ->
            [c EXCEPT !.output_records[t.k].commitment_randomness = 69]
      [] t.kind = "out_commitment" ->
            [c EXCEPT !.output_records[t.k].commitment = JunkCommitment]
      [] t.kind = "enc_randomizer" -> [c EXCEPT !.encrypted_record_randomizers[t.k] = 79]
      [] t.kind = "enc_id" ->
            [c EXCEPT !.encrypted_record_ids[t.k] = EncryptedRecordCRH(Encrypt(0, 0, <<>>))]
      [] t.kind = "ledger_digest" -> [c EXCEPT !.ledger_digest = [leaves |-> <<JunkCommitment>>]]
      [] t.kind = "swap_serial_numbers" ->
            [c EXCEPT !.kernel.serial_numbers = Swapped(@)]
      [] t.kind = "swap_commitments" -> [c EXCEPT !.kernel.commitments = Swapped(@)]
      [] t.kind = "balance_up" -> [c EXCEPT !.kernel.value_balance = @ + 1]
      [] t.kind = "balance_down" -> [c EXCEPT !.kernel.value_balance = @ - 1]
      [] t.kind = "transaction_id" -> [c EXCEPT !.transaction_id = TransactionIdCRH(<<>>)]
      [] t.kind = "transaction_id_swapped_serial_numbers" ->
            [c EXCEPT !.transaction_id =
                TransactionIdCRH(KernelBytes([c.kernel EXCEPT !.serial_numbers = Swapped(@)]))]
      [] t.kind = "transaction_id_swapped_commitments" ->
            [c EXCEPT !.transaction_id =
                TransactionIdCRH(KernelBytes([c.kernel EXCEPT !.commitments = Swapped(@)]))]
      [] t.kind = "memo" -> [c EXCEPT !.kernel.memo = <<6, 6>>]
      [] t.kind = "network_id" -> [c EXCEPT !.kernel.network_id = 2]
      [] t.kind = "program_id" -> [c EXCEPT !.program_id = OtherProgramId]
      [] t.kind = "program_id_none" -> [c EXCEPT !.program_id = NoProgramId]
      [] t.kind = "short_input_records" -> [c EXCEPT !.input_records = DropLast(@)]
      [] t.kind = "short_witnesses" -> [c EXCEPT !.input_witnesses = DropLast(@)]
      [] t.kind = "short_signatures" -> [c EXCEPT !.signatures = DropLast(@)]
      [] t.kind = "short_serial_numbers" -> [c EXCEPT !.kernel.serial_numbers = DropLast(@)]
      [] t.kind = "short_output_records" -> [c EXCEPT !.output_records = DropLast(@)]
      [] t.kind = "short_commitments" -> [c EXCEPT !.kernel.commitments = DropLast(@)]
      [] t.kind = "short_randomizers" ->
            [c EXCEPT !.encrypted_record_randomizers = DropLast(@)]
      [] t.kind = "short_encrypted_record_ids" ->
            [c EXCEPT !.encrypted_record_ids = DropLast(@)]
      [] t.kind = "long_input_records" ->
            [c EXCEPT !.input_records = Append(@, [c.input_records[1] EXCEPT !.value = 1])]
      [] t.kind = "long_output_records" ->
            [c EXCEPT !.output_records = Append(@, [c.output_records[1] EXCEPT !.value = 1])]
      [] t.kind = "input_count" -> [c EXCEPT !.circuit_type.input_count = t.x]
      [] t.kind = "output_count" -> [c EXCEPT !.circuit_type.output_count = t.x]
      [] OTHER -> c

NotSynthesized == [outcome |-> "pending", failed |-> {}]

\* InnerCircuit::new(public, private) on the variables of such a circuit.
InitCircuit ==
    /\ \E plan \in Plans, d \in PlanChanges, t \in Tampers :
          LET changed == ChangedPlan(plan, d)
              derived == Derive(changed)
              c == Tampered(derived, t)
          IN  /\ d = NoChange \/ changed # plan
              /\ t = NoTamper \/ c # derived
              /\ c.kernel.value_balance \in SignedMin..SignedMax
              /\ circuit = c
              /\ made = [plan |-> plan, change |-> d, tamper |-> t, derived |-> derived]
    /\ synth = NotSynthesized
    /\ call = Idle
    /\ origin = Idle
    /\ result = Idle
    /\ args = Idle
    /\ built = Idle
    /\ wire = Idle

\* One call of generate_constraints, followed by the satisfiability check
\* of the constraint system.
GenerateConstraints ==
    /\ synth.outcome = "pending"
    /\ synth' = generate_constraints(circuit)
    /\ UNCHANGED <<call, origin, result, circuit, made, args, built, wire>>

NextCircuit == GenerateConstraints

SpecCircuit == InitCircuit /\ [][NextCircuit]_vars

(***************************************************************************)
(* Properties of InnerCircuit::generate_constraints, checked under         *)
(* SpecCircuit.  A circuit is accepted when the constraint system is       *)
(* satisfied; it is rejected when it is unsatisfied or synthesis aborted.  *)
(***************************************************************************)
Synthesized == synth.outcome # "pending"

Accepted == synth.outcome = "satisfied"

Inputs == 1..processed_inputs(circuit)

Outputs == 1..processed_outputs(circuit)

ValidWitness(i) ==
    merkle_root(circuit.input_witnesses[i], circuit.input_records[i].commitment)
        = circuit.ledger_digest

\* C5: a processed input that is not a dummy and whose Merkle witness does
\* not lead from its commitment to the ledger digest makes the circuit
\* rejected; altering the witness of a dummy input changes neither the
\* outcome nor the set of failed checks, so it causes no rejection by itself.
C5_MembershipUnlessDummy ==
    Synthesized =>
        /\ \A i \in Inputs :
              (~circuit.input_records[i].is_dummy /\ ~ValidWitness(i)) => ~Accepted
        /\ (made.tamper.kind = "witness" /\ circuit.input_records[made.tamper.k].is_dummy)
              => synth = generate_constraints(made.derived)

\* A transaction whose second input is a dummy with a witness that leads
\* nowhere, and which is accepted.
C5_Witness ==
    /\ Synthesized
    /\ made.change = NoChange
    /\ made.tamper.kind = "witness"
    /\ made.tamper.k \in Inputs
    /\ circuit.input_records[made.tamper.k].is_dummy
    /\ ~ValidWitness(made.tamper.k)
    /\ \E i \in Inputs : ~circuit.input_records[i].is_dummy
    /\ Accepted

\* C6: for every processed input i, dummy or not, the circuit is rejected
\* when the kernel's serial number at index i differs from the PRF of the
\* sk_prf derived from signature i on the serial number nonce of record i.
C6_SerialNumberDerivation ==
    Synthesized =>
        \A i \in Inputs :
            circuit.kernel.serial_numbers[i]
                # PRF(sk_prf_of(circuit.signatures[i]),
                      circuit.input_records[i].serial_number_nonce)
            => ~Accepted

\* A transaction that is valid but for the kernel's serial number of a dummy
\* input: it is rejected, and by the serial number check alone.
C6_Witness ==
    /\ Synthesized
    /\ made.change = NoChange
    /\ made.tamper.kind = "kernel_serial_number"
    /\ made.tamper.k \in Inputs
    /\ circuit.input_records[made.tamper.k].is_dummy
    /\ synth.outcome = "unsatisfied"
    /\ synth.failed = {<<"serial_number", made.tamper.k>>}

IsNoop(record) ==
    record.value = 0 /\ record.payload = EmptyPayload /\ record.program_id = NoopProgramId

NoopCheckNames(who) ==
    {who \o "_noop_value", who \o "_noop_payload", who \o "_noop_program_id"}

\* C7: a circuit with a processed input or output record that is flagged
\* is_dummy and whose value is not 0, whose payload is not the empty payload
\* or whose program id is not the no-op id is rejected; for a record not so
\* flagged none of the three checks ever fails.
C7_DummyIsNoop ==
    Synthesized =>
        /\ \A i \in Inputs :
              (circuit.input_records[i].is_dummy /\ ~IsNoop(circuit.input_records[i]))
                 => ~Accepted
        /\ \A j \in Outputs :
              (circuit.output_records[j].is_dummy /\ ~IsNoop(circuit.output_records[j]))
                 => ~Accepted
        /\ \A f \in synth.failed :
              /\ f[1] \in NoopCheckNames("input") => circuit.input_records[f[2]].is_dummy
              /\ f[1] \in NoopCheckNames("output") => circuit.output_records[f[2]].is_dummy

\* A transaction with a dummy input that carries a payload and is otherwise
\* well formed (its commitment is over that payload): it is rejected, and by
\* the payload check alone.
C7_Witness ==
    /\ Synthesized
    /\ made.tamper = NoTamper
    /\ made.change.kind = "payload"
    /\ made.change.who = "input"
    /\ circuit.input_records[made.change.k].is_dummy
    /\ circuit.input_records[made.change.k].payload # EmptyPayload
    /\ synth.outcome = "unsatisfied"
    /\ synth.failed = {<<"input_noop_payload", made.change.k>>}

RecordFieldTampers(who) ==
    {who \o "_owner", who \o "_is_dummy", who \o "_value", who \o "_payload",
     who \o "_program_id", who \o "_nonce", who \o "_randomness"}

CommitmentCheckNames == {"input_commitment", "output_commitment"}

\* C8: a circuit with a processed input or output record whose declared
\* commitment is not the commitment of owner || is_dummy || value || payload
\* || program_id || serial_number_nonce under the record's randomness is
\* rejected; in particular so is one in which one of these six fields or the
\* randomness of a record was changed after the commitment was made; and no
\* commitment check fails for the records as the assembler derived them.
C8_CommitmentRecomputed ==
    Synthesized =>
        /\ \A i \in Inputs :
              circuit.input_records[i].commitment # RecordCommitment(circuit.input_records[i])
                 => ~Accepted
        /\ \A j \in Outputs :
              circuit.output_records[j].commitment # RecordCommitment(circuit.output_records[j])
                 => ~Accepted
        /\ (made.tamper.kind \in RecordFieldTampers("in") /\ made.tamper.k \in Inputs)
              => ~Accepted
        /\ (made.tamper.kind \in RecordFieldTampers("out") /\ made.tamper.k \in Outputs)
              => ~Accepted
        /\ made.tamper = NoTamper => \A f \in synth.failed : f[1] \notin CommitmentCheckNames

\* A valid transaction in which only the commitment randomness of a real
\* input was changed: it is rejected, and by the commitment check alone.
C8_Witness ==
    /\ Synthesized
    /\ made.change = NoChange
    /\ made.tamper.kind = "in_randomness"
    /\ made.tamper.k \in Inputs
    /\ ~circuit.input_records[made.tamper.k].is_dummy
    /\ synth.outcome = "unsatisfied"
    /\ synth.failed = {<<"input_commitment", made.tamper.k>>}

\* C9: a circuit with a processed output j whose record commitment differs
\* from the kernel's commitment at the same index j is rejected; so is one
\* whose kernel holds the output records' commitments in another order.
C9_KernelCommitmentSameIndex ==
    Synthesized =>
        \A j \in Outputs :
            circuit.output_records[j].commitment # circuit.kernel.commitments[j] => ~Accepted

\* A valid transaction whose kernel commitments were swapped: each is still
\* the commitment of an output record, and the circuit is rejected by the
\* kernel commitment checks alone.
C9_Witness ==
    /\ Synthesized
    /\ made.change = NoChange
    /\ made.tamper.kind = "swap_commitments"
    /\ Len(circuit.output_records) = 2
    /\ Len(circuit.kernel.commitments) = 2
    /\ circuit.kernel.commitments[1] = circuit.output_records[2].commitment
    /\ circuit.kernel.commitments[2] = circuit.output_records[1].commitment
    /\ synth.outcome = "unsatisfied"
    /\ synth.failed = {<<"kernel_commitment", 1>>, <<"kernel_commitment", 2>>}

DerivedSerialNumber(i) ==
    PRF(sk_prf_of(circuit.signatures[i]), circuit.input_records[i].serial_number_nonce)

\* C10: a circuit is accepted only if, for every processed output j, there
\* is a processed input j and the serial number nonce of output record j is
\* the serial number derived for input j; an output whose nonce is the
\* serial number of the input at another index is rejected.
C10_NonceSameIndex ==
    Synthesized =>
        \A j \in Outputs :
            (j \notin Inputs
               \/ circuit.output_records[j].serial_number_nonce # DerivedSerialNumber(j))
            => ~Accepted

\* A transaction in which an output was built on the serial number of the
\* other input and is otherwise consistent (commitment, kernel, encryption,
\* transaction id, signatures): it is rejected, and by the nonce check alone.
C10_Witness ==
    /\ Synthesized
    /\ made.tamper = NoTamper
    /\ made.change.kind = "nonce_from"
    /\ made.change.k \in Outputs
    /\ \E i \in Inputs :
          /\ i # made.change.k
          /\ circuit.output_records[made.change.k].serial_number_nonce = DerivedSerialNumber(i)
    /\ synth.outcome = "unsatisfied"
    /\ synth.failed = {<<"serial_number_nonce", made.change.k>>}

\* C11: a circuit with a processed output j whose public encrypted-record id
\* is not the digest of the encryption of value || payload || program_id ||
\* serial_number_nonce || commitment_randomness to the record's owner under
\* the declared encryption randomness at index j is rejected.
C11_EncryptedRecordId ==
    Synthesized =>
        \A j \in Outputs :
            circuit.encrypted_record_ids[j]
                # EncryptedRecordId(circuit.output_records[j],
                                    circuit.encrypted_record_randomizers[j])
            => ~Accepted

\* A valid transaction in which only the declared encryption randomness of a
\* real output was changed: it is rejected, and by the encryption check alone.
C11_Witness ==
    /\ Synthesized
    /\ made.change = NoChange
    /\ made.tamper.kind = "enc_randomizer"
    /\ made.tamper.k \in Outputs
    /\ ~circuit.output_records[made.tamper.k].is_dummy
    /\ synth.outcome = "unsatisfied"
    /\ synth.failed = {<<"encrypted_record_id", made.tamper.k>>}

\* The rule of the executable for the record at 1-based position k.
ProgramIdInPlace(record, k, count) ==
    IF k - 1 < count THEN record.program_id = circuit.program_id
    ELSE record.program_id = NoopProgramId

C13_CapacityEnforced ==
    (Synthesized
       /\ (circuit.circuit_type.input_count > NUM_INPUT_RECORDS
             \/ circuit.circuit_type.output_count > NUM_OUTPUT_RECORDS))
        => ~Accepted

\* A valid transaction whose outputs are all real and whose declared number
\* of outputs was raised past the capacity: every program id is in place,
\* and the circuit is rejected by the capacity check alone.
C13_Witness ==
    /\ Synthesized
    /\ made.change = NoChange
    /\ made.tamper.kind = "output_count"
    /\ circuit.circuit_type.output_count > NUM_OUTPUT_RECORDS
    /\ circuit.circuit_type.output_count <= 255
    /\ synth.outcome = "unsatisfied"
    /\ synth.failed = {<<"output_capacity", 0>>}

\* The values of the circuit's records as the unsigned integers they are.
InputValues == [i \in 1..Len(circuit.input_records) |-> circuit.input_records[i].value]

OutputValues == [j \in 1..Len(circuit.output_records) |-> circuit.output_records[j].value]

\* The sum of all input values less the sum of all output values.
TrueBalance ==
    Sum(InputValues, Len(InputValues)) - Sum(OutputValues, Len(OutputValues))

\* The sum of the first values in the order of the balance computation: the
\* inputs added one by one, then the outputs subtracted one by one.
TruePartialBalance(n) ==
    Sum(InputValues, Min(n, Len(InputValues)))
    - Sum(OutputValues, IF n > Len(InputValues) THEN n - Len(InputValues) ELSE 0)

\* C14: a circuit is accepted only if the kernel's declared value balance is
\* the sum of all input record values less the sum of all output record
\* values; in particular a declared balance one above or one below that
\* difference is rejected, equal sums are accepted only with balance 0, and so
\* are records that are all dummies.
C14_ValueBalance ==
    (Synthesized /\ Accepted) => circuit.kernel.value_balance = TrueBalance

\* C15: a circuit with a record value above the signed maximum, or with a
\* partial sum of input values less output values outside the signed range,
\* is rejected: no value enters the balance reduced modulo the word size.
C15_NoWraparound ==
    (Synthesized
       /\ \E n \in 1..(Len(InputValues) + Len(OutputValues)) :
              \/ n <= Len(InputValues) /\ InputValues[n] > SignedMax
              \/ n > Len(InputValues) /\ OutputValues[n - Len(InputValues)] > SignedMax
              \/ TruePartialBalance(n) > SignedMax
              \/ TruePartialBalance(n) < SignedMin)
        => ~Accepted

\* The bytes the kernel declares for the processed records: network id, the
\* serial numbers of the processed inputs and the commitments of the
\* processed outputs in index order, the value balance, the memo.
DeclaredKernelMessage ==
    << to_bytes_le(circuit.kernel.network_id, 2),
       [i \in Inputs |-> circuit.kernel.serial_numbers[i]],
       [j \in Outputs |-> circuit.kernel.commitments[j]],
       signed_to_bytes(circuit.kernel.value_balance),
       circuit.kernel.memo >>

KernelTampers ==
    {"swap_serial_numbers", "swap_commitments", "network_id", "balance_up", "balance_down",
     "memo"}

\* C16: a circuit whose public transaction id is not the CRH of network_id ||
\* serial numbers in index order || commitments in index order || value
\* balance || memo of its kernel is rejected; in particular so is an accepted
\* circuit in which two serial numbers or two commitments of the kernel were
\* swapped, or its network id, value balance or memo changed, the public
\* transaction id being left as it was.
C16_TransactionIdBinding ==
    Synthesized =>
        /\ circuit.transaction_id # TransactionIdCRH(DeclaredKernelMessage) => ~Accepted
        /\ (made.tamper.kind \in KernelTampers
              /\ generate_constraints(made.derived).outcome = "satisfied")
             => ~Accepted

\* A valid transaction with two different output commitments whose public
\* transaction id is the CRH of the kernel with the two commitments swapped:
\* it is rejected, and by the transaction id check alone.
C16_Witness ==
    /\ Synthesized
    /\ made.change = NoChange
    /\ made.tamper.kind = "transaction_id_swapped_commitments"
    /\ generate_constraints(made.derived).outcome = "satisfied"
    /\ circuit.kernel.commitments[1] # circuit.kernel.commitments[2]
    /\ synth.outcome = "unsatisfied"
    /\ synth.failed = {<<"transaction_id", 0>>}

\* C17: a circuit with a processed input i that is not a dummy and whose
\* signature i does not verify under the owner key of input record i over
\* the bytes hashed into the transaction id is rejected; so a signature over
\* another message, or one made by the owner of another input, is rejected.
C17_SignatureOverKernel ==
    Synthesized =>
        \A i \in Inputs :
            (~circuit.input_records[i].is_dummy
               /\ ~signature_verify(circuit.input_records[i].owner, DeclaredKernelMessage,
                                    circuit.signatures[i]))
            => ~Accepted

\* A valid transaction with two real inputs in which the signature of one
\* was made by the owner of the other over the right message: it is
\* rejected, and by the signature check of that input alone.
C17_Witness ==
    /\ Synthesized
    /\ made.change = NoChange
    /\ made.tamper.kind = "sig_other_owner"
    /\ made.tamper.k \in Inputs
    /\ \A i \in Inputs : ~circuit.input_records[i].is_dummy
    /\ circuit.signatures[made.tamper.k].message = DeclaredKernelMessage
    /\ \E i \in Inputs : circuit.signatures[made.tamper.k].signer = circuit.input_records[i].owner
    /\ synth.outcome = "unsatisfied"
    /\ synth.failed = {<<"signature", made.tamper.k>>}

\* The sub-checks of the predicate on the circuit, each as the code evaluates
\* it; a sub-check that cannot be evaluated does not hold.
InputSubChecksHold ==
    /\ ~compute_key_panics(circuit)
    /\ \A i \in Inputs :
          /\ membership_check(circuit, i) = {}
          /\ serial_number_check(circuit, i) = {}
          /\ noop_checks(circuit.input_records[i], "input", i) = {}
          /\ commitment_check(circuit.input_records[i], "input", i) = {}

OutputSubChecksHold ==
    /\ ~nonce_lookup_panics(circuit)
    /\ \A j \in Outputs :
          /\ kernel_commitment_check(circuit, j) = {}
          /\ serial_number_nonce_check(circuit, j) = {}
          /\ noop_checks(circuit.output_records[j], "output", j) = {}
          /\ commitment_check(circuit.output_records[j], "output", j) = {}
          /\ encryption_check(circuit, j) = {}

GlobalSubChecksHold ==
    /\ ~program_id_panics(circuit)
    /\ capacity_checks(circuit) = {}
    /\ program_id_checks(circuit) = {}
    /\ ~value_balance_panics(circuit)
    /\ value_balance_check(circuit) = {}
    /\ transaction_id_check(circuit) = {}
    /\ signature_checks(circuit) = {}

\* C18: a circuit is accepted exactly when every sub-check holds: the checks
\* of every processed input, those of every processed output, capacity,
\* program ids, value balance, transaction id and signatures.  One failing
\* sub-check rejects the circuit whatever the others give.
C18_MonolithicConjunction ==
    Synthesized =>
        (Accepted <=> (InputSubChecksHold /\ OutputSubChecksHold /\ GlobalSubChecksHold))

\* A valid transaction in which only the signature of one input is over
\* another message: the transaction id check, and every other sub-check,
\* holds, and the circuit is rejected.
C18_Witness ==
    /\ Synthesized
    /\ made.change = NoChange
    /\ made.tamper.kind = "sig_message"
    /\ InputSubChecksHold
    /\ OutputSubChecksHold
    /\ transaction_id_check(circuit) = {}
    /\ value_balance_check(circuit) = {}
    /\ signature_checks(circuit) # {}
    /\ synth.outcome = "unsatisfied"

\* One real input of value 10 and program id P, one dummy input, one real
\* output of value 10 and program id P, and a dummy output in the free slot.
WorkedExamplePlan == HonestPlan(1, 1, 1)

\* The output value raised to 11 with the record's commitment, its encrypted
\* record id, the transaction id and the signatures derived from the changed
\* record, the declared balance staying 0.
OutputValueRederived == [kind |-> "value_fixed_balance", who |-> "output", k |-> 1, x |-> 11]

\* The output value raised to 11 in the record and nothing else changed.
OutputValueOnly == [kind |-> "out_value", k |-> 1, x |-> 0]

\* C20 as stated: the worked example is accepted with balance 0, and with
\* only the output value changed to 11 it is rejected with the value balance
\* check as the sub-check that fails.
C20_OnlyBalanceFails ==
    (Synthesized /\ made.plan = WorkedExamplePlan /\ made.change = NoChange)
        => /\ made.tamper = NoTamper => (Accepted /\ circuit.kernel.value_balance = 0)
           /\ made.tamper = OutputValueOnly
                => (synth.outcome = "unsatisfied" /\ synth.failed = {<<"value_balance", 0>>})

\* C20 as amended: the worked example is accepted with balance 0; with the
\* output value 11 and everything derived from the record rederived it is
\* rejected by the value balance check alone; with only the value field of
\* the output record changed to 11 it is rejected by the value balance check
\* together with the output commitment and encrypted record id checks.
C20_WorkedExample ==
    (Synthesized /\ made.plan = WorkedExamplePlan)
        => /\ (made.change = NoChange /\ made.tamper = NoTamper)
                => (Accepted /\ circuit.kernel.value_balance = 0)
           /\ (made.change = OutputValueRederived /\ made.tamper = NoTamper)
                => /\ circuit.output_records[1].value = 11
                   /\ circuit.kernel.value_balance = 0
                   /\ synth.outcome = "unsatisfied"
                   /\ synth.failed = {<<"value_balance", 0>>}
           /\ (made.change = NoChange /\ made.tamper = OutputValueOnly)
                => /\ circuit.output_records[1].value = 11
                   /\ synth.outcome = "unsatisfied"
                   /\ synth.failed = {<<"value_balance", 0>>, <<"output_commitment", 1>>,
                                       <<"encrypted_record_id", 1>>}

\* The worked example with output value 11, rederived, after synthesis.
C20_Witness ==
    /\ Synthesized
    /\ made.plan = WorkedExamplePlan
    /\ made.change = OutputValueRederived
    /\ made.tamper = NoTamper
    /\ circuit.input_records[1].value = 10
    /\ ~circuit.input_records[1].is_dummy
    /\ circuit.input_records[2].is_dummy
    /\ circuit.output_records[1].value = 11
    /\ circuit.output_records[1].commitment = RecordCommitment(circuit.output_records[1])
    /\ synth.failed = {<<"value_balance", 0>>}

\* The circuit's vectors all have the protocol's lengths and the public
\* program id is present: its data are structurally well formed.
WellFormedCircuit ==
    /\ Len(circuit.input_records) = NUM_INPUT_RECORDS
    /\ Len(circuit.input_witnesses) = NUM_INPUT_RECORDS
    /\ Len(circuit.signatures) = NUM_INPUT_RECORDS
    /\ Len(circuit.kernel.serial_numbers) = NUM_INPUT_RECORDS
    /\ Len(circuit.output_records) = NUM_OUTPUT_RECORDS
    /\ Len(circuit.kernel.commitments) = NUM_OUTPUT_RECORDS
    /\ Len(circuit.encrypted_record_randomizers) = NUM_OUTPUT_RECORDS
    /\ Len(circuit.encrypted_record_ids) = NUM_OUTPUT_RECORDS
    /\ circuit.program_id # NoProgramId

\* C21: on structurally well-formed data generate_constraints never aborts:
\* a wrong serial number or commitment, unbalanced or overflowing values, a
\* signature that does not verify or that gives no compute key all end as an
\* unsatisfied constraint system or a returned error.
C21_ViolationsAreOrdinary ==
    (Synthesized /\ WellFormedCircuit) => synth.outcome # "panic"

(***************************************************************************)
(* The digest chain of a path, and hash failures, under SpecTrie.          *)
(***************************************************************************)
RECURSIVE PathDigest(_)
\* d_0 is the hash of the leaf (key, value, no children); d_n the hash of
\* parents[n]'s key and value over path[n] with d_(n-1) put at traversal[n].
PathDigest(n) ==
    IF n = 0
    THEN calculate_root(call.key, <<call.value>>, <<>>)
    ELSE calculate_root(call.parents[n][1], call.parents[n][2],
                        InsertAt(call.path[n], call.traversal[n], PathDigest(n - 1)))

\* C24: for a path of at least one level, with equal lengths, every
\* traversal index in range and no hash failing, verify returns true exactly
\* when the last digest of the chain equals the root, and false otherwise;
\* an index equal to the number of siblings of its level puts the digest last.
C24_DigestChain ==
    (Returned /\ SameLengths /\ call.path # <<>> /\ call.crhFailAt = -1
       /\ \A i \in Levels : ~OutOfRange(i))
        => /\ result.outcome \in {"true", "false"}
           /\ result.outcome = "true" <=> PathDigest(Len(call.path)) = call.root_hash

\* A two-level path returned true with the digest put last among one or
\* more siblings at the first level.
C24_Witness ==
    /\ Returned
    /\ SameLengths
    /\ Len(call.path) = 2
    /\ call.path[1] # <<>>
    /\ call.traversal[1] = Len(call.path[1])
    /\ call.crhFailAt = -1
    /\ result.outcome = "true"
    /\ result.placed[1] = Len(call.path[1])

\* C25: when the hash fails at the leaf (0) or at a level the loop reaches
\* (the lengths are equal and the indices up to that level are in range),
\* verify returns the failure as an error, neither true nor false, and has
\* hashed nothing after the failing call.
C25_HashFailureIsError ==
    (Returned /\ SameLengths /\ call.crhFailAt >= 0
       /\ (call.crhFailAt = 0 \/ call.path # <<>>)
       /\ call.crhFailAt <= Len(call.path)
       /\ \A i \in 1..call.crhFailAt : ~OutOfRange(i))
        => /\ result.outcome = "error"
           /\ result.hashes = call.crhFailAt + 1
           /\ Len(result.placed) = call.crhFailAt

\* A two-level path whose first level's hash fails, asked against the root
\* its digests fold to: verify stopped after two hashes with an error.
C25_Witness ==
    /\ Returned
    /\ SameLengths
    /\ Len(call.path) = 2
    /\ call.crhFailAt = 1
    /\ ~OutOfRange(1) /\ ~OutOfRange(2)
    /\ origin.root = "folded"
    /\ result.outcome = "error"
    /\ result.hashes = 2

(***************************************************************************)
(* Signatures of dummy inputs.                                             *)
(***************************************************************************)
DummyInputs == {i \in Inputs : circuit.input_records[i].is_dummy}

\* C26: the signature of a dummy input is verified like any other: a dummy
\* input whose signature does not verify under its owner's key over the
\* kernel message makes the circuit rejected, with the signature check of
\* that input failing as it does for a non-dummy input; a dummy input whose
\* signature verifies fails no signature check, and an honest transaction
\* with a dummy input is accepted.
C26_DummySignatureVerified ==
    Synthesized =>
        /\ \A i \in DummyInputs :
              ~signature_verify(circuit.input_records[i].owner, DeclaredKernelMessage,
                                circuit.signatures[i])
                => ~Accepted
        /\ synth.outcome = "unsatisfied" =>
              \A i \in Inputs :
                  <<"signature", i>> \in synth.failed
                    <=> ~signature_verify(circuit.input_records[i].owner,
                                          signature_message(circuit), circuit.signatures[i])
        /\ (made.change = NoChange /\ made.tamper = NoTamper /\ DummyInputs # {})
              => Accepted

\* A valid transaction in which the signature of a dummy input was made
\* with another key: it is rejected by the signature check of that input alone.
C26_Witness ==
    /\ Synthesized
    /\ made.change = NoChange
    /\ made.tamper.kind = "sig_signer"
    /\ made.tamper.k \in DummyInputs
    /\ synth.outcome = "unsatisfied"
    /\ synth.failed = {<<"signature", made.tamper.k>>}

(***************************************************************************)
(* The records counted in the value balance and the records checked.       *)
(***************************************************************************)
\* lines 747 and 756: the value loops run over every private input record
\* and every private output record.
CountedInputs == 1..Len(circuit.input_records)

CountedOutputs == 1..Len(circuit.output_records)

\* lines 682-709: the program id loops stop at the protocol's record counts.
ProgramIdCheckedInputs == 1..Min(processed_inputs(circuit), NUM_INPUT_RECORDS)

ProgramIdCheckedOutputs == 1..Min(processed_outputs(circuit), NUM_OUTPUT_RECORDS)

\* C27: whenever generate_constraints runs to its end, every input record
\* whose value was added to the balance and every output record whose value
\* was subtracted has also gone through the per-record checks of its loop
\* and through the program id check, whatever the lengths of the vectors.
C27_CountedRecordsChecked ==
    (Synthesized /\ synth.outcome # "panic")
        => /\ CountedInputs \subseteq (Inputs \cap ProgramIdCheckedInputs)
           /\ CountedOutputs \subseteq (Outputs \cap ProgramIdCheckedOutputs)

\* C28: when the input loop has run to its end, every output the output
\* loop processes finds a derived input serial number at its own index: the
\* lookup old_serial_numbers_gadgets[j] is never out of range and
\* generate_constraints does not abort on it.
C28_NonceLookupInRange ==
    (Synthesized /\ ~compute_key_panics(circuit))
        => /\ Outputs \subseteq Inputs
           /\ ~(nonce_lookup_panics(circuit) /\ synth.outcome = "panic")

(***************************************************************************)
(* The marlin Proof.                                                       *)
(*                                                                         *)
(* A proof p holds batch_sizes (one per circuit), commitments, evaluations,*)
(* the prover's third message and the evaluation proof.  Commitments and   *)
(* field elements are modelled by distinct numbers.  The serialised form   *)
(* is the sequence of the primitive values written, each with the type it  *)
(* was written as; a read of a value of another type, or past the end,     *)
(* fails.  An optional commitment is <<>> (None) or <<c>> (Some(c)).       *)
(***************************************************************************)
\* Greatest number of circuits of a batch proof.
MaxCircuits == 2

\* Greatest number of instances of one circuit.
MaxBatchSize == 2

RECURSIVE Concat(_)
\* The concatenation of a sequence of sequences.
Concat(ss) == IF ss = <<>> THEN <<>> ELSE ss[1] \o Concat(Tail(ss))

RECURSIVE iter_sum(_)
\* Iterator::sum over a vector of usize.
iter_sum(s) == IF s = <<>> THEN 0 ELSE s[1] + iter_sum(Tail(s))

Token(t, v) == [t |-> t, v |-> v]

\* The number of bytes of a written value in compressed mode.
TokenSize(tok) ==
    CASE tok.t = "u64" -> 8
      [] tok.t = "flag" -> 1
      [] tok.t = "commitment" -> 48
      [] tok.t = "field" -> 32
      [] tok.t = "msg" -> 96
      [] tok.t = "pc_proof" -> 56

RECURSIVE ByteLength(_)
\* The number of bytes of a serialised form.
ByteLength(bytes) ==
    IF bytes = <<>> THEN 0 ELSE TokenSize(bytes[1]) + ByteLength(Tail(bytes))

\* CanonicalSerialize of the primitive values: a usize is written as a u64,
\* a vector as its length followed by its elements, an option as a flag
\* followed by the value if there is one.
serialize_usize(n) == <<Token("u64", n)>>

serialize_commitment(c) == <<Token("commitment", c)>>

serialize_field(f) == <<Token("field", f)>>

serialize_option_commitment(o) ==
    IF o = <<>> THEN <<Token("flag", 0)>> ELSE <<Token("flag", 1)>> \o serialize_commitment(o[1])

serialize_vec_usize(s) ==
    serialize_usize(Len(s)) \o Concat([i \in 1..Len(s) |-> serialize_usize(s[i])])

serialize_vec_field(s) ==
    serialize_usize(Len(s)) \o Concat([i \in 1..Len(s) |-> serialize_field(s[i])])

serialize_vec_vec_field(s) ==
    serialize_usize(Len(s)) \o Concat([i \in 1..Len(s) |-> serialize_vec_field(s[i])])

serialize_msg(m) == <<Token("msg", m)>>

serialize_pc_proof(q) == <<Token("pc_proof", q)>>

\* lines 119-127: the derived serialisation writes w, z_a, z_b.
WitnessCommitments_serialize(wc) ==
    serialize_commitment(wc.w) \o serialize_commitment(wc.z_a) \o serialize_commitment(wc.z_b)

\* lines 50-73.
Commitments_serialize_with_mode(c) ==
    Concat([i \in 1..Len(c.witness_commitments) |->
               WitnessCommitments_serialize(c.witness_commitments[i])])
    \o serialize_option_commitment(c.mask_poly)
    \o serialize_commitment(c.g_1)
    \o serialize_commitment(c.h_1)
    \o Concat([i \in 1..Len(c.g_a_commitments) |-> serialize_commitment(c.g_a_commitments[i])])
    \o Concat([i \in 1..Len(c.g_b_commitments) |-> serialize_commitment(c.g_b_commitments[i])])
    \o Concat([i \in 1..Len(c.g_c_commitments) |-> serialize_commitment(c.g_c_commitments[i])])
    \o serialize_commitment(c.h_2)

\* lines 144-155.
Evaluations_serialize_with_mode(e) ==
    serialize_vec_vec_field(e.z_b_evals)
    \o serialize_field(e.g_1_eval)
    \o serialize_vec_field(e.g_a_evals)
    \o serialize_vec_field(e.g_b_evals)
    \o serialize_vec_field(e.g_c_evals)

\* lines 312-319.
Proof_serialize_with_mode(p) ==
    [outcome |-> "ok",
     bytes |-> serialize_vec_usize(p.batch_sizes)
               \o Commitments_serialize_with_mode(p.commitments)
               \o Evaluations_serialize_with_mode(p.evaluations)
               \o serialize_msg(p.msg)
               \o serialize_pc_proof(p.pc_proof)]

\* lines 75-90: the size of the commitments; indexing the first entry of an
\* empty list panics.
Commitments_serialized_size(c) ==
    IF c.witness_commitments = <<>> \/ c.g_a_commitments = <<>>
       \/ c.g_b_commitments = <<>> \/ c.g_c_commitments = <<>>
    THEN [ok |-> FALSE, value |-> 0]
    ELSE [ok |-> TRUE,
          value |->
              Len(c.witness_commitments)
                  * ByteLength(WitnessCommitments_serialize(c.witness_commitments[1]))
              + ByteLength(serialize_option_commitment(c.mask_poly))
              + ByteLength(serialize_commitment(c.g_1))
              + ByteLength(serialize_commitment(c.h_1))
              + Len(c.g_a_commitments) * ByteLength(serialize_commitment(c.g_a_commitments[1]))
              + Len(c.g_b_commitments) * ByteLength(serialize_commitment(c.g_b_commitments[1]))
              + Len(c.g_c_commitments) * ByteLength(serialize_commitment(c.g_c_commitments[1]))
              + ByteLength(serialize_commitment(c.h_2))]

\* lines 157-165.
Evaluations_serialized_size(e) ==
    ByteLength(serialize_vec_vec_field(e.z_b_evals))
    + ByteLength(serialize_field(e.g_1_eval))
    + ByteLength(serialize_vec_field(e.g_a_evals))
    + ByteLength(serialize_vec_field(e.g_b_evals))
    + ByteLength(serialize_vec_field(e.g_c_evals))

\* lines 321-329.
Proof_serialized_size(p) ==
    LET commitments_size == Commitments_serialized_size(p.commitments)
    IN  IF ~commitments_size.ok
        THEN [outcome |-> "panic", value |-> 0]
        ELSE [outcome |-> "ok",
              value |-> ByteLength(serialize_vec_usize(p.batch_sizes))
                        + commitments_size.value
                        + Evaluations_serialized_size(p.evaluations)
                        + ByteLength(serialize_msg(p.msg))
                        + ByteLength(serialize_pc_proof(p.pc_proof))]

(***************************************************************************)
(* Deserialisation.  A reader gives [ok, pos, value]: whether the read     *)
(* succeeded, the position after it, and what was read.                    *)
(***************************************************************************)
read_token(bytes, pos, kind) ==
    IF pos <= Len(bytes) /\ bytes[pos].t = kind
    THEN [ok |-> TRUE, pos |-> pos + 1, value |-> bytes[pos].v]
    ELSE [ok |-> FALSE, pos |-> pos, value |-> 0]

RECURSIVE read_tokens(_, _, _, _, _)
\* n values of one type read one after the other (a vector without its length).
read_tokens(bytes, pos, kind, n, acc) ==
    IF n = 0
    THEN [ok |-> TRUE, pos |-> pos, value |-> acc]
    ELSE LET r == read_token(bytes, pos, kind)
         IN  IF ~r.ok
             THEN [ok |-> FALSE, pos |-> r.pos, value |-> acc]
             ELSE read_tokens(bytes, r.pos, kind, n - 1, Append(acc, r.value))

\* CanonicalDeserialize of a vector: its length, then that many elements.
deserialize_vec(bytes, pos, kind) ==
    LET len == read_token(bytes, pos, "u64")
    IN  IF ~len.ok
        THEN [ok |-> FALSE, pos |-> pos, value |-> <<>>]
        ELSE read_tokens(bytes, len.pos, kind, len.value, <<>>)

RECURSIVE read_vecs(_, _, _, _, _)
read_vecs(bytes, pos, kind, n, acc) ==
    IF n = 0
    THEN [ok |-> TRUE, pos |-> pos, value |-> acc]
    ELSE LET r == deserialize_vec(bytes, pos, kind)
         IN  IF ~r.ok
             THEN [ok |-> FALSE, pos |-> r.pos, value |-> acc]
             ELSE read_vecs(bytes, r.pos, kind, n - 1, Append(acc, r.value))

deserialize_vec_vec(bytes, pos, kind) ==
    LET len == read_token(bytes, pos, "u64")
    IN  IF ~len.ok
        THEN [ok |-> FALSE, pos |-> pos, value |-> <<>>]
        ELSE read_vecs(bytes, len.pos, kind, len.value, <<>>)

deserialize_option_commitment(bytes, pos) ==
    LET flag == read_token(bytes, pos, "flag")
        some == read_token(bytes, flag.pos, "commitment")
    IN  IF ~flag.ok
        THEN [ok |-> FALSE, pos |-> pos, value |-> <<>>]
        ELSE IF flag.value = 0
        THEN [ok |-> TRUE, pos |-> flag.pos, value |-> <<>>]
        ELSE [ok |-> some.ok, pos |-> some.pos, value |-> <<some.value>>]

\* lines 119-127: n witness commitments, each read as w, z_a, z_b.
deserialize_witness_commitments(bytes, pos, n) ==
    LET r == read_tokens(bytes, pos, "commitment", 3 * n, <<>>)
    IN  IF ~r.ok
        THEN [ok |-> FALSE, pos |-> r.pos, value |-> <<>>]
        ELSE [ok |-> TRUE, pos |-> r.pos,
              value |-> [i \in 1..n |-> [w |-> r.value[3 * i - 2],
                                         z_a |-> r.value[3 * i - 1],
                                         z_b |-> r.value[3 * i]]]]

\* lines 92-116: batch_size witness commitments, the mask, g_1, h_1, then
\* batch_size commitments for each of g_a, g_b and g_c, then h_2.
Commitments_deserialize_with_mode(batch_size, bytes, pos) ==
    LET witness_commitments == deserialize_witness_commitments(bytes, pos, batch_size)
        mask_poly == deserialize_option_commitment(bytes, witness_commitments.pos)
        g_1 == read_token(bytes, mask_poly.pos, "commitment")
        h_1 == read_token(bytes, g_1.pos, "commitment")
        g_a_commitments == read_tokens(bytes, h_1.pos, "commitment", batch_size, <<>>)
        g_b_commitments == read_tokens(bytes, g_a_commitments.pos, "commitment", batch_size, <<>>)
        g_c_commitments == read_tokens(bytes, g_b_commitments.pos, "commitment", batch_size, <<>>)
        h_2 == read_token(bytes, g_c_commitments.pos, "commitment")
    IN  [ok |-> /\ witness_commitments.ok /\ mask_poly.ok /\ g_1.ok /\ h_1.ok
                /\ g_a_commitments.ok /\ g_b_commitments.ok /\ g_c_commitments.ok /\ h_2.ok,
         pos |-> h_2.pos,
         value |-> [witness_commitments |-> witness_commitments.value,
                    mask_poly |-> mask_poly.value,
                    g_1 |-> g_1.value,
                    h_1 |-> h_1.value,
                    g_a_commitments |-> g_a_commitments.value,
                    g_b_commitments |-> g_b_commitments.value,
                    g_c_commitments |-> g_c_commitments.value,
                    h_2 |-> h_2.value]]

\* lines 167-179.
Evaluations_deserialize_with_mode(bytes, pos) ==
    LET z_b_evals == deserialize_vec_vec(bytes, pos, "field")
        g_1_eval == read_token(bytes, z_b_evals.pos, "field")
        g_a_evals == deserialize_vec(bytes, g_1_eval.pos, "field")
        g_b_evals == deserialize_vec(bytes, g_a_evals.pos, "field")
        g_c_evals == deserialize_vec(bytes, g_b_evals.pos, "field")
    IN  [ok |-> z_b_evals.ok /\ g_1_eval.ok /\ g_a_evals.ok /\ g_b_evals.ok /\ g_c_evals.ok,
         pos |-> g_c_evals.pos,
         value |-> [z_b_evals |-> z_b_evals.value,
                    g_1_eval |-> g_1_eval.value,
                    g_a_evals |-> g_a_evals.value,
                    g_b_evals |-> g_b_evals.value,
                    g_c_evals |-> g_c_evals.value]]

\* lines 343-357: the batch sizes, their sum, then the commitments read with
\* that sum, the evaluations, the message and the evaluation proof.  The
\* result keeps the position after each part and the number of values read.
Proof_deserialize_with_mode(bytes) ==
    LET batch_sizes == deserialize_vec(bytes, 1, "u64")
        total_batch_size == iter_sum(batch_sizes.value)
        commitments == Commitments_deserialize_with_mode(total_batch_size, bytes, batch_sizes.pos)
        evaluations == Evaluations_deserialize_with_mode(bytes, commitments.pos)
        msg == read_token(bytes, evaluations.pos, "msg")
        pc_proof == read_token(bytes, msg.pos, "pc_proof")
    IN  IF batch_sizes.ok /\ commitments.ok /\ evaluations.ok /\ msg.ok /\ pc_proof.ok
        THEN [outcome |-> "ok",
              proof |-> [batch_sizes |-> batch_sizes.value,
                         commitments |-> commitments.value,
                         evaluations |-> evaluations.value,
                         msg |-> msg.value,
                         pc_proof |-> pc_proof.value],
              ends |-> <<batch_sizes.pos - 1, commitments.pos - 1, evaluations.pos - 1,
                         msg.pos - 1, pc_proof.pos - 1>>,
              consumed |-> pc_proof.pos - 1]
        ELSE [outcome |-> "error",
              proof |-> <<>>,
              ends |-> <<>>,
              consumed |-> 0]

RECURSIVE new_z_b_loop(_, _, _)
\* lines 288-292: the loop over the z_b evaluation vectors from i on;
\* batch_sizes[i] panics when there is no i-th batch size.
new_z_b_loop(z_b_evals, batch_sizes, i) ==
    IF i > Len(z_b_evals) THEN "ok"
    ELSE IF i > Len(batch_sizes) THEN "panic"
    ELSE IF Len(z_b_evals[i]) # batch_sizes[i] THEN "BatchSizeMismatch"
    ELSE new_z_b_loop(z_b_evals, batch_sizes, i + 1)

\* lines 276-294: Proof::new; batch_sizes_map is given by its values in key order.
Proof_new(batch_sizes_map, total_instances, commitments, evaluations, msg, pc_proof) ==
    IF Len(commitments.witness_commitments) # total_instances
    THEN [outcome |-> "BatchSizeMismatch", proof |-> <<>>]
    ELSE LET looped == new_z_b_loop(evaluations.z_b_evals, batch_sizes_map, 1)
         IN  IF looped # "ok"
             THEN [outcome |-> looped, proof |-> <<>>]
             ELSE [outcome |-> "ok",
                   proof |-> [batch_sizes |-> batch_sizes_map,
                              commitments |-> commitments,
                              evaluations |-> evaluations,
                              msg |-> msg,
                              pc_proof |-> pc_proof]]

RECURSIVE batch_sizes_loop(_, _, _)
\* lines 298-303: the loop over the zip of the z_b vectors and the batch
\* sizes from i on; total is the sum of the batch sizes met so far.
batch_sizes_loop(p, i, total) ==
    IF i > Len(p.evaluations.z_b_evals) \/ i > Len(p.batch_sizes)
    THEN [ok |-> TRUE, total_instances |-> total]
    ELSE IF Len(p.evaluations.z_b_evals[i]) # p.batch_sizes[i]
    THEN [ok |-> FALSE, total_instances |-> total + p.batch_sizes[i]]
    ELSE batch_sizes_loop(p, i + 1, total + p.batch_sizes[i])

\* lines 296-308: Proof::batch_sizes.
Proof_batch_sizes(p) ==
    LET looped == batch_sizes_loop(p, 1, 0)
    IN  IF ~looped.ok
        THEN [outcome |-> "BatchSizeMismatch", value |-> <<>>]
        ELSE IF Len(p.commitments.witness_commitments) # looped.total_instances
        THEN [outcome |-> "BatchSizeMismatch", value |-> <<>>]
        ELSE [outcome |-> "ok", value |-> p.batch_sizes]

(***************************************************************************)
(* The prover's side: the arguments of Proof::new for a batch of circuits, *)
(* and the ways in which they can disagree with the batch sizes.           *)
(***************************************************************************)
BatchSizeVectors == UNION {[1..n -> 1..MaxBatchSize] : n \in 0..MaxCircuits}

\* The arguments the prover assembles for the batch sizes bs: one witness
\* commitment per instance, one g_a, g_b, g_c commitment and evaluation per
\* circuit, one z_b evaluation per instance of each circuit; the mask
\* polynomial is committed to when the proof is zero-knowledge.
ProverArguments(bs, zk) ==
    [batch_sizes_map |-> bs,
     total_instances |-> iter_sum(bs),
     commitments |->
         [witness_commitments |->
              [n \in 1..iter_sum(bs) |-> [w |-> 10 * n + 1, z_a |-> 10 * n + 2, z_b |-> 10 * n + 3]],
          mask_poly |-> IF zk THEN <<504>> ELSE <<>>,
          g_1 |-> 501,
          h_1 |-> 502,
          g_a_commitments |-> [i \in 1..Len(bs) |-> 200 + i],
          g_b_commitments |-> [i \in 1..Len(bs) |-> 300 + i],
          g_c_commitments |-> [i \in 1..Len(bs) |-> 400 + i],
          h_2 |-> 503],
     evaluations |->
         [z_b_evals |-> [i \in 1..Len(bs) |-> [k \in 1..bs[i] |-> 600 + 10 * i + k]],
          g_1_eval |-> 701,
          g_a_evals |-> [i \in 1..Len(bs) |-> 710 + i],
          g_b_evals |-> [i \in 1..Len(bs) |-> 720 + i],
          g_c_evals |-> [i \in 1..Len(bs) |-> 730 + i]],
     msg |-> 801,
     pc_proof |-> 901]

NoDeviation == [kind |-> "none", i |-> 0]

Deviations ==
    {NoDeviation}
    \cup {[kind |-> k, i |-> 0] :
            k \in {"total_up", "total_down", "witness_more", "witness_fewer",
                   "total_and_witness_up", "z_b_missing", "z_b_extra"}}
    \cup {[kind |-> k, i |-> i] : k \in {"z_b_longer", "z_b_shorter"}, i \in 1..MaxCircuits}

ExtraWitnessCommitment == [w |-> 91, z_a |-> 92, z_b |-> 93]

Deviated(a, d) ==
    CASE d.kind = "total_up" -> [a EXCEPT !.total_instances = @ + 1]
      [] d.kind = "total_down" -> [a EXCEPT !.total_instances = IF @ > 0 THEN @ - 1 ELSE @]
      [] d.kind = "witness_more" ->
            [a EXCEPT !.commitments.witness_commitments = Append(@, ExtraWitnessCommitment)]
      [] d.kind = "witness_fewer" ->
            [a EXCEPT !.commitments.witness_commitments = DropLast(@)]
      [] d.kind = "total_and_witness_up" ->
            [a EXCEPT !.total_instances = @ + 1,
                      !.commitments.witness_commitments = Append(@, ExtraWitnessCommitment)]
      [] d.kind = "z_b_missing" -> [a EXCEPT !.evaluations.z_b_evals = DropLast(@)]
      [] d.kind = "z_b_extra" -> [a EXCEPT !.evaluations.z_b_evals = Append(@, <<699>>)]
      [] d.kind = "z_b_longer" /\ d.i <= Len(a.evaluations.z_b_evals) ->
            [a EXCEPT !.evaluations.z_b_evals[d.i] = Append(@, 698)]
      [] d.kind = "z_b_shorter" /\ d.i <= Len(a.evaluations.z_b_evals) ->
            [a EXCEPT !.evaluations.z_b_evals[d.i] = DropLast(@)]
      [] OTHER -> a

NotRun == [outcome |-> "pending"]

InitProof ==
    /\ \E bs \in BatchSizeVectors, zk \in BOOLEAN, d \in Deviations :
          LET prover == ProverArguments(bs, zk)
              a == Deviated(prover, d)
          IN  /\ d = NoDeviation \/ a # prover
              /\ args = [batch_sizes_map |-> a.batch_sizes_map,
                         total_instances |-> a.total_instances,
                         commitments |-> a.commitments,
                         evaluations |-> a.evaluations,
                         msg |-> a.msg,
                         pc_proof |-> a.pc_proof,
                         deviation |-> d]
    /\ built = NotRun
    /\ wire = [checked |-> NotRun, sized |-> NotRun, written |-> NotRun, parsed |-> NotRun]
    /\ call = Idle
    /\ origin = Idle
    /\ result = Idle
    /\ circuit = Idle
    /\ made = Idle
    /\ synth = Idle

\* One call of Proof::new.
New ==
    /\ built.outcome = "pending"
    /\ built' = Proof_new(args.batch_sizes_map, args.total_instances, args.commitments,
                          args.evaluations, args.msg, args.pc_proof)
    /\ UNCHANGED <<call, origin, result, circuit, made, synth, args, wire>>

\* One call of batch_sizes on the proof built.
BatchSizes ==
    /\ built.outcome = "ok"
    /\ wire.checked.outcome = "pending"
    /\ wire' = [wire EXCEPT !.checked = Proof_batch_sizes(built.proof)]
    /\ UNCHANGED <<call, origin, result, circuit, made, synth, args, built>>

\* One call of serialized_size on the proof built.
SerializedSize ==
    /\ built.outcome = "ok"
    /\ wire.sized.outcome = "pending"
    /\ wire' = [wire EXCEPT !.sized = Proof_serialized_size(built.proof)]
    /\ UNCHANGED <<call, origin, result, circuit, made, synth, args, built>>

\* The proof built is written out.
Serialize ==
    /\ built.outcome = "ok"
    /\ wire.written.outcome = "pending"
    /\ wire' = [wire EXCEPT !.written = Proof_serialize_with_mode(built.proof)]
    /\ UNCHANGED <<call, origin, result, circuit, made, synth, args, built>>

\* What was written is read back.
Deserialize ==
    /\ wire.written.outcome = "ok"
    /\ wire.parsed.outcome = "pending"
    /\ wire' = [wire EXCEPT !.parsed = Proof_deserialize_with_mode(wire.written.bytes)]
    /\ UNCHANGED <<call, origin, result, circuit, made, synth, args, built>>

NextProof == New \/ BatchSizes \/ SerializedSize \/ Serialize \/ Deserialize

SpecProof == InitProof /\ [][NextProof]_vars

(***************************************************************************)
(* Properties of the marlin Proof, checked under SpecProof.                *)
(***************************************************************************)
NewReturned == built.outcome # "pending"

\* The number of z_b evaluations handed to Proof::new for circuit i.
ZbCount(i) ==
    IF i <= Len(args.evaluations.z_b_evals) THEN Len(args.evaluations.z_b_evals[i]) ELSE 0

\* C22: Proof::new returns BatchSizeMismatch, and builds no proof, whenever
\* the number of witness commitments differs from total_instances or, for
\* some circuit i of the batch sizes, the number of z_b evaluations of that
\* circuit differs from the i-th batch size.
C22_MismatchRejected ==
    (NewReturned
       /\ (\/ Len(args.commitments.witness_commitments) # args.total_instances
           \/ \E i \in 1..Len(args.batch_sizes_map) : ZbCount(i) # args.batch_sizes_map[i]))
        => built.outcome = "BatchSizeMismatch"

\* The part of the serialised proof that the k-th written value belongs to,
\* by its type: the lengths and sizes before the first commitment are the
\* batch sizes (1); flags and commitments are the commitments (2); field
\* elements and the lengths among them are the evaluations (3); then the
\* prover message (4) and the evaluation proof (5).
PartOf(bytes, k) ==
    CASE bytes[k].t = "pc_proof" -> 5
      [] bytes[k].t = "msg" -> 4
      [] bytes[k].t = "field" -> 3
      [] bytes[k].t \in {"flag", "commitment"} -> 2
      [] OTHER -> IF \A j \in 1..k : bytes[j].t = "u64" THEN 1 ELSE 3

\* What is written is laid out as batch sizes, commitments, evaluations,
\* message, evaluation proof, the batch sizes being the proof's.
SerializationOrder ==
    wire.written.outcome = "ok" =>
        LET bytes == wire.written.bytes
            n == Len(built.proof.batch_sizes)
        IN  /\ \A k \in 1..(Len(bytes) - 1) : PartOf(bytes, k) <= PartOf(bytes, k + 1)
            /\ {PartOf(bytes, k) : k \in 1..Len(bytes)} = 1..5
            /\ bytes[1] = Token("u64", n)
            /\ \A i \in 1..n : bytes[1 + i] = Token("u64", built.proof.batch_sizes[i])
            /\ bytes[Len(bytes) - 1] = Token("msg", built.proof.msg)
            /\ bytes[Len(bytes)] = Token("pc_proof", built.proof.pc_proof)

\* A successful read took the five parts one after the other, each part
\* from the values written for it.
DeserializationOrder ==
    wire.parsed.outcome = "ok" =>
        LET bytes == wire.written.bytes
            ends == wire.parsed.ends
        IN  /\ \A m \in 1..5 :
                  \A k \in ((IF m = 1 THEN 0 ELSE ends[m - 1]) + 1)..ends[m] :
                      PartOf(bytes, k) = m
            /\ \A m \in 1..5 : (IF m = 1 THEN 0 ELSE ends[m - 1]) < ends[m]

\* serialized_size gives the number of bytes of the five parts written.
SizeIsSumOfParts ==
    (wire.sized.outcome # "pending" /\ wire.written.outcome = "ok")
        => /\ wire.sized.outcome = "ok"
           /\ wire.sized.value = ByteLength(wire.written.bytes)

\* C23: a proof is written as its batch sizes, commitments, evaluations,
\* prover message and evaluation proof in this order, is read back part by
\* part in the same order, and serialized_size is the sum of the sizes of
\* these five parts.
C23_SerializationLayout ==
    SerializationOrder /\ DeserializationOrder /\ SizeIsSumOfParts

\* C29: Proof::new never aborts, and batch_sizes() returns Ok on every
\* proof it built: the witness commitments are as many as the sum of the
\* batch sizes and there is one z_b vector per batch size, of that length.
C29_BuiltProofConsistent ==
    /\ built.outcome # "panic"
    /\ (built.outcome = "ok" /\ wire.checked.outcome # "pending")
         => /\ wire.checked.outcome = "ok"
            /\ Len(built.proof.commitments.witness_commitments)
                  = iter_sum(built.proof.batch_sizes)
            /\ Len(built.proof.evaluations.z_b_evals) = Len(built.proof.batch_sizes)
            /\ \A i \in 1..Len(built.proof.batch_sizes) :
                  Len(built.proof.evaluations.z_b_evals[i]) = built.proof.batch_sizes[i]

\* The proof built has one g_a, g_b and g_c commitment per circuit and one
\* witness commitment per instance.
OnePerCircuit ==
    /\ built.outcome = "ok"
    /\ Len(built.proof.commitments.g_a_commitments) = Len(built.proof.batch_sizes)
    /\ Len(built.proof.commitments.g_b_commitments) = Len(built.proof.batch_sizes)
    /\ Len(built.proof.commitments.g_c_commitments) = Len(built.proof.batch_sizes)
    /\ Len(built.proof.commitments.witness_commitments) = iter_sum(built.proof.batch_sizes)

\* C30: reading back what was written for a proof accepted by Proof::new,
\* with any number of circuits and any batch sizes, gives the same proof and
\* takes exactly the values written.
C30_RoundTrip ==
    (OnePerCircuit /\ wire.parsed.outcome # "pending")
        => /\ wire.parsed.outcome = "ok"
           /\ wire.parsed.proof = built.proof
           /\ wire.parsed.consumed = Len(wire.written.bytes)

====
